---- MODULE Spec2Model ----
(***************************************************************************)
(* A model of the opr8 DOM: the node store (circular-tail sibling lists),  *)
(* the streaming Builder and the tree-order Marshaler.                     *)
(*                                                                         *)
(* The heap is a sequence of node records; a node pointer is an index into *)
(* it and Nil (0) is the nil pointer.  Each public method is one action;   *)
(* the pointer surgery it performs is written as an operator threading a   *)
(* store  [h |-> heap, panic |-> BOOLEAN]  through the assignments of the  *)
(* source in source order, so that aliasing between the arguments and a    *)
(* nil dereference part-way through behave as in the program.              *)
(***************************************************************************)
EXTENDS Integers, Sequences, FiniteSets, TLC

VARIABLES
    heap,     \* Seq of node records: every *node allocated so far
    call,     \* the last public operation invoked, with its arguments
    err,      \* the result of that operation: "nil", an error, or "panic"
    cursor,   \* Builder.Node: the Builder's cursor (Nil when no Builder runs)
    opts,     \* Builder.opts: the set of parse flags
    output,   \* what the last Marshaler run emitted
    nops,     \* how many mutation methods have been called
    jd,       \* the JSONDecoder: its token source, state function, stack and error
    dec,      \* the schema-guided Decoder: schema cursor, restore stack, skip, errors
    iter,     \* the nodeIterator: parent, wrap and match
    mgr       \* the session manager: its map, ID source, mutex and goroutines

vars == <<heap, call, err, cursor, opts, output, nops, jd, dec, iter, mgr>>

-----------------------------------------------------------------------------
(* Bounds *)

\* nodes the node-store specifications allocate at most
MaxNodes == 3
\* mutation methods the node-store specifications call at most
MaxOps == 2
\* attributes an xml.StartElement carries at most
MaxAttrs == 1
\* nodes the Builder specification allocates at most, its root included
MaxBuilt == 4

-----------------------------------------------------------------------------
(* nodetype.go *)

Nil == 0

NodeTypeNull == 0
NodeTypeElement == 1
NodeTypeAttribute == 2
NodeTypeText == 3
NodeTypeCDATASection == 4
NodeTypeEntityReference == 5
NodeTypeEntity == 6
NodeTypeProcessingInstruction == 7
NodeTypeComment == 8
NodeTypeDocument == 9
NodeTypeDocumentType == 10
NodeTypeDocumentFragment == 11
NodeTypeNotation == 12
NodeTypeDeclaration == 13

NodeTypes == NodeTypeNull..NodeTypeDeclaration

(* errors.go *)
ErrNil == "nil"
ErrHierarchyRequest == "hierarchy request error"
Panic == "panic"

-----------------------------------------------------------------------------
(* Values: the kind-specific payload behind node.value.  One record shape  *)
(* for all kinds; the fields a kind does not have stay at their zero value.*)

NoName == [Space |-> "", Local |-> ""]

mkValue(type, name, data, target) ==
    [type |-> type, name |-> name, data |-> data, target |-> target]

\* &node{value: v}
mkNode(v) ==
    [parent |-> Nil, firstChild |-> Nil, nextSib |-> Nil, prevSib |-> Nil,
     firstAttr |-> Nil, value |-> v]

\* A store: the heap together with whether a nil dereference has panicked.
St(h) == [h |-> h, panic |-> FALSE]

\* p.f = v ; a write through a nil p panics and nothing after it runs.
Store(s, p, f, v) ==
    IF s.panic THEN s
    ELSE IF p = Nil THEN [s EXCEPT !.panic = TRUE]
    ELSE [s EXCEPT !.h[p][f] = v]

\* p.f, read in store s (only used where the source has checked p).
Load(s, p, f) == IF p = Nil THEN Nil ELSE s.h[p][f]

\* allocation: the new node's pointer is the next index
Alloc(s, v) == [s EXCEPT !.h = Append(s.h, mkNode(v))]
Top(s) == Len(s.h)

NodeIds == 1..Len(heap)

\* node.NodeType
NodeType(h, n) == IF n = Nil THEN NodeTypeNull ELSE h[n].value.type

\* node.xmlName: only Element and Attribute values are Namers
xmlName(h, n) ==
    IF NodeType(h, n) \in {NodeTypeElement, NodeTypeAttribute}
    THEN h[n].value.name ELSE NoName

-----------------------------------------------------------------------------
(* Structural validity *)

\* allowInsertChild without the rule for DocumentType and Declaration
allowInsertChild_anywhere(parent, child) ==
    IF parent = NodeTypeNull \/ child = NodeTypeNull THEN FALSE
    ELSE IF parent # NodeTypeDocument /\ parent # NodeTypeElement THEN FALSE
    ELSE IF child = NodeTypeDocument \/ child = 0 THEN FALSE
    ELSE TRUE

allowInsertChild(parent, child) ==
    IF parent = NodeTypeNull \/ child = NodeTypeNull THEN FALSE
    ELSE IF parent # NodeTypeDocument /\ parent # NodeTypeElement THEN FALSE
    ELSE IF child = NodeTypeDocument \/ child = 0 THEN FALSE
    ELSE IF parent # NodeTypeDocument
            /\ (child = NodeTypeDocumentType \/ child = NodeTypeDeclaration) THEN FALSE
    ELSE TRUE

allowInsertChildErr(parent, child) ==
    IF ~allowInsertChild(parent, child) THEN ErrHierarchyRequest ELSE ErrNil

allowInsertAttribute(parent) ==
    parent = NodeTypeElement \/ parent = NodeTypeDeclaration

allowInsertAttributeErr(parent) ==
    IF ~allowInsertAttribute(parent) THEN ErrHierarchyRequest ELSE ErrNil

\* node.OwnerDocument: the first Document among the proper ancestors.  The
\* walk is cut after Len(h) steps (a parent cycle never ends in the program).
RECURSIVE ownerWalk(_, _, _)
ownerWalk(h, it, fuel) ==
    IF it = Nil \/ fuel = 0 THEN Nil
    ELSE IF h[it].value.type = NodeTypeDocument THEN it
    ELSE ownerWalk(h, h[it].parent, fuel - 1)

OwnerDocument(h, n) == ownerWalk(h, h[n].parent, Len(h))

\* the loop of allowMove: is child among parent and its ancestors
RECURSIVE ancestorOrSelf(_, _, _, _)
ancestorOrSelf(h, cur, child, fuel) ==
    IF cur = Nil \/ fuel = 0 THEN FALSE
    ELSE IF cur = child THEN TRUE
    ELSE ancestorOrSelf(h, h[cur].parent, child, fuel - 1)

allowMove(h, parent, child) ==
    IF ~allowInsertChild(NodeType(h, parent), NodeType(h, child)) THEN FALSE
    ELSE IF OwnerDocument(h, parent) # OwnerDocument(h, child) THEN FALSE
    ELSE ~ancestorOrSelf(h, parent, child, Len(h) + 1)

-----------------------------------------------------------------------------
(* Child list surgery *)

appendNode(s0, child, parent) ==
    LET s1 == Store(s0, child, "parent", parent)
        head == Load(s1, parent, "firstChild")
    IN  IF head # Nil
        THEN LET tail == Load(s1, head, "prevSib")
                 s2 == Store(s1, tail, "nextSib", child)
                 s3 == Store(s2, child, "prevSib", tail)
             IN  Store(s3, head, "prevSib", child)
        ELSE LET s2 == Store(s1, parent, "firstChild", child)
             IN  Store(s2, child, "prevSib", child)

prependNode(s0, child, parent) ==
    LET s1 == Store(s0, child, "parent", parent)
        head == Load(s1, parent, "firstChild")
        s3 == IF head # Nil
              THEN LET s2 == Store(s1, child, "prevSib", Load(s1, head, "prevSib"))
                   IN  Store(s2, head, "prevSib", child)
              ELSE Store(s1, child, "prevSib", child)
        s4 == Store(s3, child, "nextSib", head)
    IN  Store(s4, parent, "firstChild", child)

insertNodeBefore(s0, child, before) ==
    LET parent == Load(s0, before, "parent")
        s1 == Store(s0, child, "parent", before)
        s2 == IF Load(s1, before, "prevSib") # Nil
              THEN Store(s1, Load(s1, before, "prevSib"), "nextSib", child)
              ELSE Store(s1, Load(s1, parent, "firstChild"), "prevSib", child)
        s3 == Store(s2, child, "prevSib", Load(s2, before, "prevSib"))
        s4 == Store(s3, child, "nextSib", before)
    IN  Store(s4, before, "prevSib", child)

insertNodeAfter(s0, child, after) ==
    LET parent == Load(s0, after, "parent")
        s1 == Store(s0, child, "parent", parent)
        next == Load(s1, after, "nextSib")
        s2 == IF next # Nil
              THEN Store(s1, next, "prevSib", child)
              ELSE Store(s1, Load(s1, parent, "firstChild"), "prevSib", child)
        s3 == Store(s2, child, "nextSib", Load(s2, after, "nextSib"))
        s4 == Store(s3, child, "prevSib", after)
    IN  Store(s4, after, "nextSib", child)

-----------------------------------------------------------------------------
(* Attribute list surgery *)

appendAttribute(s0, attr, parent) ==
    LET head == Load(s0, parent, "firstAttr")
    IN  IF head # Nil
        THEN LET tail == Load(s0, head, "prevSib")
                 s1 == Store(s0, tail, "nextSib", attr)
                 s2 == Store(s1, attr, "prevSib", tail)
             IN  Store(s2, head, "prevSib", attr)
        ELSE LET s1 == Store(s0, parent, "firstAttr", attr)
             IN  Store(s1, attr, "prevSib", attr)

prependAttribute(s0, attr, parent) ==
    LET head == Load(s0, parent, "firstAttr")
        s2 == IF head # Nil
              THEN LET s1 == Store(s0, attr, "prevSib", Load(s0, head, "prevSib"))
                   IN  Store(s1, head, "prevSib", attr)
              ELSE Store(s0, attr, "prevSib", attr)
        s3 == Store(s2, attr, "nextSib", head)
    IN  Store(s3, parent, "firstAttr", attr)

\* both attr and place must be attributes, else the function panics at once
insertAttributeAfter(s0, attr, place, parent) ==
    IF NodeType(s0.h, place) # NodeTypeAttribute \/ NodeType(s0.h, attr) # NodeTypeAttribute
    THEN [s0 EXCEPT !.panic = TRUE]
    ELSE LET pnext == Load(s0, place, "nextSib")
             s1 == IF pnext # Nil
                   THEN Store(s0, pnext, "prevSib", attr)
                   ELSE Store(s0, Load(s0, parent, "firstAttr"), "prevSib", attr)
             s2 == Store(s1, attr, "nextSib", Load(s1, place, "nextSib"))
             s3 == Store(s2, attr, "prevSib", place)
         IN  Store(s3, place, "nextSib", attr)

insertAttributeBefore(s0, attr, place, parent) ==
    IF NodeType(s0.h, place) # NodeTypeAttribute \/ NodeType(s0.h, attr) # NodeTypeAttribute
    THEN [s0 EXCEPT !.panic = TRUE]
    ELSE LET pprev == Load(s0, place, "prevSib")
             s1 == IF pprev # Nil
                   THEN Store(s0, pprev, "nextSib", attr)
                   ELSE Store(s0, parent, "firstAttr", attr)
             s2 == Store(s1, attr, "prevSib", Load(s1, place, "prevSib"))
             s3 == Store(s2, attr, "nextSib", place)
         IN  Store(s3, place, "prevSib", attr)

-----------------------------------------------------------------------------
(* Node constructors: each returns the store with the new node(s) on top   *)

newAttribute(s, a) ==
    Alloc(s, mkValue(NodeTypeAttribute, a.Name, a.Value, ""))

newText(s, cd) == Alloc(s, mkValue(NodeTypeText, NoName, cd, ""))

newComment(s, c) == Alloc(s, mkValue(NodeTypeComment, NoName, c, ""))

newDocument(s) == Alloc(s, mkValue(NodeTypeDocument, NoName, <<>>, ""))

newProcInst(s, pi) ==
    Alloc(s, mkValue(NodeTypeProcessingInstruction, NoName, pi.Inst, pi.Target))

\* rest of newStartElement's loop: append attrs[i..] to element n
RECURSIVE appendAttrs(_, _, _, _)
appendAttrs(s, n, attrs, i) ==
    IF i > Len(attrs) THEN s
    ELSE LET s1 == newAttribute(s, attrs[i])
         IN  appendAttrs(appendAttribute(s1, Top(s1), n), n, attrs, i + 1)

\* newStartElement returns [s |-> store, n |-> the element]
newStartElement(s, elem) ==
    LET s1 == Alloc(s, mkValue(NodeTypeElement, elem.Name, <<>>, ""))
        n == Top(s1)
    IN  [s |-> appendAttrs(s1, n, elem.Attr, 1), n |-> n]

\* kvPairs: an instruction is a sequence of whitespace-separated fields; a
\* field is either a well-formed  key="value"  pair, kept, or malformed, skipped
RECURSIVE kvPairs(_)
kvPairs(input) ==
    IF input = <<>> THEN <<>>
    ELSE IF Head(input).ok
         THEN <<[Name |-> [Space |-> "", Local |-> Head(input).k],
                 Value |-> Head(input).v]>> \o kvPairs(Tail(input))
         ELSE kvPairs(Tail(input))

newDeclaration(s, pi) ==
    LET s1 == Alloc(s, mkValue(NodeTypeDeclaration, NoName, pi.Inst, pi.Target))
        n == Top(s1)
    IN  [s |-> appendAttrs(s1, n, kvPairs(pi.Inst), 1), n |-> n]

newDocumentFragment(s, host) ==
    LET s1 == Alloc(s, mkValue(NodeTypeDocumentFragment, NoName, <<>>, ""))
    IN  Store(s1, Top(s1), "parent", host)

-----------------------------------------------------------------------------
(* The public mutation methods of *node, as functions of the heap.  Each   *)
(* returns [h |-> the heap afterwards, err |-> the error returned].        *)

Ret(s) == [h |-> s.h, err |-> IF s.panic THEN Panic ELSE ErrNil]
Fail(h, e) == [h |-> h, err |-> e]

\* AppendChild without the kind check
node_AppendChild_unchecked(h, n, child) == Ret(appendNode(St(h), child, n))

node_AppendChild(h, n, child) ==
    IF allowInsertChildErr(NodeType(h, n), NodeType(h, child)) # ErrNil
    THEN Fail(h, ErrHierarchyRequest)
    ELSE Ret(appendNode(St(h), child, n))

node_PrependChild(h, n, child) ==
    IF allowInsertChildErr(NodeType(h, n), NodeType(h, child)) # ErrNil
    THEN Fail(h, ErrHierarchyRequest)
    ELSE Ret(prependNode(St(h), child, n))

\* InsertChildAfter trusting the reference to be a child of n
node_InsertChildAfter_anyref(h, n, child, after) ==
    IF allowInsertChildErr(NodeType(h, n), NodeType(h, child)) # ErrNil
    THEN Fail(h, ErrHierarchyRequest)
    ELSE IF after = Nil THEN Ret(appendNode(St(h), child, n))
    ELSE Ret(insertNodeAfter(St(h), child, after))

node_InsertChildAfter(h, n, child, after) ==
    IF allowInsertChildErr(NodeType(h, n), NodeType(h, child)) # ErrNil
    THEN Fail(h, ErrHierarchyRequest)
    ELSE IF after = Nil THEN Ret(appendNode(St(h), child, n))
    ELSE IF h[after].parent # n THEN Fail(h, ErrHierarchyRequest)
    ELSE Ret(insertNodeAfter(St(h), child, after))

node_InsertChildBefore(h, n, child, before) ==
    IF allowInsertChildErr(NodeType(h, n), NodeType(h, child)) # ErrNil
    THEN Fail(h, ErrHierarchyRequest)
    ELSE IF before = Nil THEN Ret(prependNode(St(h), child, n))
    ELSE IF h[before].parent # n THEN Fail(h, ErrHierarchyRequest)
    ELSE Ret(insertNodeBefore(St(h), child, before))

node_AppendAttribute(h, n, a) ==
    IF allowInsertAttributeErr(NodeType(h, n)) # ErrNil
    THEN Fail(h, ErrHierarchyRequest)
    ELSE LET s1 == newAttribute(St(h), a)
         IN  Ret(appendAttribute(s1, Top(s1), n))

node_PrependAttribute(h, n, a) ==
    IF allowInsertAttributeErr(NodeType(h, n)) # ErrNil
    THEN Fail(h, ErrHierarchyRequest)
    ELSE LET s1 == newAttribute(St(h), a)
         IN  Ret(prependAttribute(s1, Top(s1), n))

node_InsertAttributeAfter(h, n, a, after) ==
    IF allowInsertAttributeErr(NodeType(h, n)) # ErrNil
    THEN Fail(h, ErrHierarchyRequest)
    ELSE IF after = Nil
         THEN LET s1 == newAttribute(St(h), a)
              IN  Ret(appendAttribute(s1, Top(s1), n))
    ELSE IF h[after].parent # n THEN Fail(h, ErrHierarchyRequest)
    ELSE LET s1 == newAttribute(St(h), a)
         IN  Ret(insertAttributeAfter(s1, Top(s1), after, n))

node_InsertAttributeBefore(h, n, a, before) ==
    IF allowInsertAttributeErr(NodeType(h, n)) # ErrNil
    THEN Fail(h, ErrHierarchyRequest)
    ELSE IF before = Nil
         THEN LET s1 == newAttribute(St(h), a)
              IN  Ret(prependAttribute(s1, Top(s1), n))
    ELSE IF h[before].parent # n THEN Fail(h, ErrHierarchyRequest)
    ELSE LET s1 == newAttribute(St(h), a)
         IN  Ret(insertAttributeBefore(s1, Top(s1), before, n))

-----------------------------------------------------------------------------
(* Inputs the node-store specifications draw from *)

StoreNames == {[Space |-> "", Local |-> "a"]}
StoreAttrs == {[Name |-> [Space |-> "", Local |-> "k"], Value |-> <<>>]}

\* sequences over S of length at most n
SeqsUpTo(S, n) == UNION {[1..k -> S] : k \in 0..n}

StoreStartElements ==
    {[Name |-> nm, Attr |-> as] : nm \in StoreNames, as \in SeqsUpTo(StoreAttrs, MaxAttrs)}

StoreProcInsts ==
    {[Target |-> "xml", Inst |-> <<>>],
     [Target |-> "xml", Inst |-> <<[ok |-> TRUE, k |-> "version", v |-> "1.0"]>>],
     [Target |-> "xml", Inst |-> <<[ok |-> FALSE, k |-> "", v |-> ""]>>],
     [Target |-> "pi", Inst |-> <<>>]}

-----------------------------------------------------------------------------
(* Node store: state machine *)

NoToken == [type |-> "none", Name |-> [Space |-> "", Local |-> ""], Attr |-> <<>>,
            Data |-> <<>>, Target |-> ""]
NoCall == [op |-> "none", n |-> Nil, child |-> Nil, ref |-> Nil, arg |-> NoToken]
Called(op, n, child, ref) ==
    [op |-> op, n |-> n, child |-> child, ref |-> ref, arg |-> NoToken]

NoOutput == [out |-> <<>>, err |-> ErrNil, opts |-> {}]

\* no JSONDecoder has been made
NoJD == [state |-> "none"]
NoDec == [childname |-> "none"]

NoIt == [parent |-> 0]

NoMgr == [sessions |-> <<>>]

Init ==
    /\ heap = <<>>
    /\ call = NoCall
    /\ err = ErrNil
    /\ cursor = Nil
    /\ opts = {}
    /\ output = NoOutput
    /\ nops = 0
    /\ jd = NoJD
    /\ dec = NoDec
    /\ iter = NoIt
    /\ mgr = NoMgr

\* a panic ends the program
Live == err # Panic

\* a factory: store s holds the new nodes, the new node proper is n
Created(op, s, n) ==
    /\ Live
    /\ Len(s.h) <= MaxNodes
    /\ heap' = s.h
    /\ call' = Called(op, n, Nil, Nil)
    /\ err' = ErrNil
    /\ UNCHANGED <<cursor, opts, output, nops, jd, dec, iter, mgr>>

\* a mutation method that returned r
Returned(op, n, child, ref, r) ==
    /\ Live
    /\ nops < MaxOps
    /\ Len(r.h) <= MaxNodes
    /\ heap' = r.h
    /\ call' = Called(op, n, child, ref)
    /\ err' = r.err
    /\ nops' = nops + 1
    /\ UNCHANGED <<cursor, opts, output, jd, dec, iter, mgr>>

NewDocument ==
    LET s == newDocument(St(heap)) IN Created("NewDocument", s, Top(s))

CreateElement(se) ==
    LET r == newStartElement(St(heap), se) IN Created("CreateElement", r.s, r.n)

CreateText(cd) ==
    LET s == newText(St(heap), cd) IN Created("CreateText", s, Top(s))

CreateComment(c) ==
    LET s == newComment(St(heap), c) IN Created("CreateComment", s, Top(s))

CreateAttribute(a) ==
    LET s == newAttribute(St(heap), a) IN Created("CreateAttribute", s, Top(s))

CreateProcessingInstruction(pi) ==
    IF pi.Target = "xml"
    THEN LET r == newDeclaration(St(heap), pi)
         IN  Created("CreateProcessingInstruction", r.s, r.n)
    ELSE LET s == newProcInst(St(heap), pi)
         IN  Created("CreateProcessingInstruction", s, Top(s))

\* host is an Element
CreateDocumentFragment(host) ==
    /\ NodeType(heap, host) = NodeTypeElement
    /\ LET s == newDocumentFragment(St(heap), host)
       IN  Created("CreateDocumentFragment", s, Top(s))

\* documentFragmentNode.SetHost
SetHost(d, host) ==
    /\ NodeType(heap, d) = NodeTypeDocumentFragment
    /\ NodeType(heap, host) = NodeTypeElement
    /\ Returned("SetHost", d, Nil, host, Ret(Store(St(heap), d, "parent", host)))

AppendChild(n, child) ==
    Returned("AppendChild", n, child, Nil, node_AppendChild(heap, n, child))

PrependChild(n, child) ==
    Returned("PrependChild", n, child, Nil, node_PrependChild(heap, n, child))

InsertChildAfter(n, child, after) ==
    Returned("InsertChildAfter", n, child, after, node_InsertChildAfter(heap, n, child, after))

InsertChildBefore(n, child, before) ==
    Returned("InsertChildBefore", n, child, before, node_InsertChildBefore(heap, n, child, before))

AppendAttribute(n, a) ==
    Returned("AppendAttribute", n, Nil, Nil, node_AppendAttribute(heap, n, a))

PrependAttribute(n, a) ==
    Returned("PrependAttribute", n, Nil, Nil, node_PrependAttribute(heap, n, a))

InsertAttributeAfter(n, a, after) ==
    Returned("InsertAttributeAfter", n, Nil, after, node_InsertAttributeAfter(heap, n, a, after))

InsertAttributeBefore(n, a, before) ==
    Returned("InsertAttributeBefore", n, Nil, before, node_InsertAttributeBefore(heap, n, a, before))

Create ==
    \/ NewDocument
    \/ \E se \in StoreStartElements : CreateElement(se)
    \/ CreateText(<<>>)
    \/ CreateComment(<<>>)
    \/ \E a \in StoreAttrs : CreateAttribute(a)
    \/ \E pi \in StoreProcInsts : CreateProcessingInstruction(pi)
    \/ \E host \in NodeIds : CreateDocumentFragment(host)
    \/ \E d, host \in NodeIds : SetHost(d, host)

InsertAttr ==
    \/ \E n \in NodeIds, a \in StoreAttrs : AppendAttribute(n, a)
    \/ \E n \in NodeIds, a \in StoreAttrs : PrependAttribute(n, a)
    \/ \E n \in NodeIds, a \in StoreAttrs, after \in NodeIds \cup {Nil} :
            InsertAttributeAfter(n, a, after)
    \/ \E n \in NodeIds, a \in StoreAttrs, before \in NodeIds \cup {Nil} :
            InsertAttributeBefore(n, a, before)

Next ==
    \/ Create
    \/ InsertAttr
    \/ \E n, child \in NodeIds : AppendChild(n, child)
    \/ \E n, child \in NodeIds : PrependChild(n, child)
    \/ \E n, child \in NodeIds, after \in NodeIds \cup {Nil} : InsertChildAfter(n, child, after)
    \/ \E n, child \in NodeIds, before \in NodeIds \cup {Nil} : InsertChildBefore(n, child, before)

Spec == Init /\ [][Next]_vars

-----------------------------------------------------------------------------
(* Tokens (flexml): one record shape for every token type *)

mkToken(type, name, attr, data, target) ==
    [type |-> type, Name |-> name, Attr |-> attr, Data |-> data, Target |-> target]

StartElementTok(name, attr) == mkToken("StartElement", name, attr, <<>>, "")
EndElementTok(name) == mkToken("EndElement", name, <<>>, <<>>, "")
CharDataTok(cd) == mkToken("CharData", NoName, <<>>, cd, "")
CommentTok(c) == mkToken("Comment", NoName, <<>>, c, "")
ProcInstTok(target, inst) == mkToken("ProcInst", NoName, <<>>, inst, target)
DirectiveTok == mkToken("Directive", NoName, <<>>, <<>>, "")

-----------------------------------------------------------------------------
(* Builder (attr.go) *)

parseDeclaration == "parseDeclaration"
parseDoctype == "parseDoctype"
parsePI == "parsePI"
parseComments == "parseComments"
parseTrimPCData == "parseTrimPCData"
parseWSPCData == "parseWSPCData"
parseFragment == "parseFragment"

\* bitflag.Has
Has(f, other) == other \in f

ErrTODO == "TODO"

\* unicode.IsSpace on the characters the model uses
IsSpace(c) == c \in {" ", "\t", "\n", "\r"}

RECURSIVE trimLeft(_)
trimLeft(cd) ==
    IF cd # <<>> /\ IsSpace(Head(cd)) THEN trimLeft(Tail(cd)) ELSE cd

RECURSIVE trimRight(_)
trimRight(cd) ==
    IF cd # <<>> /\ IsSpace(cd[Len(cd)])
    THEN trimRight(SubSeq(cd, 1, Len(cd) - 1)) ELSE cd

\* bytes.TrimSpace
TrimSpace(cd) == trimRight(trimLeft(cd))

\* A Builder is b = [h |-> heap, cur |-> un.Node]; every handler returns the
\* Builder afterwards and the error: [h, cur, err].
BRet(h, cur, e) == [h |-> h, cur |-> cur, err |-> e]

\* un.Node.AppendChild(n), n a node made in store s
appendNew(b, s, n) ==
    LET r == node_AppendChild(s.h, b.cur, n)
    IN  BRet(r.h, b.cur, r.err)

\* Builder.Root
RECURSIVE Builder_Root(_, _, _)
Builder_Root(h, it, fuel) ==
    IF it = Nil \/ fuel = 0 THEN Nil
    ELSE IF h[it].parent = Nil THEN it
    ELSE Builder_Root(h, h[it].parent, fuel - 1)

Builder_Begin(b) ==
    IF b.cur = Nil THEN BRet(b.h, b.cur, "node cursor is nil") ELSE BRet(b.h, b.cur, ErrNil)

\* Builder.StartElement that links the new element under the cursor at once
Builder_StartElement_linked(b, se) ==
    LET r == newStartElement(St(b.h), se)
        a == node_AppendChild(r.s.h, b.cur, r.n)
    IN  IF a.err # ErrNil
        THEN BRet(Store(r.s, r.n, "parent", b.cur).h, r.n, ErrNil)
        ELSE BRet(a.h, r.n, ErrNil)

Builder_StartElement(b, se) ==
    LET r == newStartElement(St(b.h), se)
        s == Store(r.s, r.n, "parent", b.cur)
    IN  BRet(s.h, r.n, ErrNil)

\* Builder.EndElement without un.Node = un.Node.Parent()
Builder_EndElement_noAscend(b) ==
    LET n == b.cur
    IN  IF b.h[n].parent = Nil THEN BRet(b.h, b.cur, ErrHierarchyRequest)
        ELSE LET r == node_AppendChild(b.h, b.h[n].parent, n)
             IN  BRet(r.h, b.cur, r.err)

\* Builder.EndElement linking the closed element in front of its siblings
Builder_EndElement_prepend(b) ==
    LET n == b.cur
    IN  IF b.h[n].parent = Nil THEN BRet(b.h, b.cur, ErrHierarchyRequest)
        ELSE LET r == node_PrependChild(b.h, b.h[n].parent, n)
             IN  IF r.err # ErrNil THEN BRet(r.h, b.cur, r.err)
                 ELSE BRet(r.h, r.h[b.cur].parent, ErrNil)

Builder_EndElement(b) ==
    LET n == b.cur
    IN  IF b.h[n].parent = Nil THEN BRet(b.h, b.cur, ErrHierarchyRequest)
        ELSE LET r == node_AppendChild(b.h, b.h[n].parent, n)
             IN  IF r.err # ErrNil THEN BRet(r.h, b.cur, r.err)
                 ELSE BRet(r.h, r.h[b.cur].parent, ErrNil)

\* Builder.CharData appending cd where the source appends trimmed
Builder_CharData_untrimmed(b, o, cd) ==
    IF allowInsertChildErr(NodeType(b.h, b.cur), NodeTypeText) # ErrNil
    THEN BRet(b.h, b.cur, ErrHierarchyRequest)
    ELSE IF Len(cd) = 0 /\ ~Has(o, parseWSPCData) THEN BRet(b.h, b.cur, ErrNil)
    ELSE IF ~Has(o, parseTrimPCData) THEN LET s == newText(St(b.h), cd) IN appendNew(b, s, Top(s))
    ELSE IF Has(o, parseWSPCData) \/ Len(TrimSpace(cd)) > 0
         THEN LET s == newText(St(b.h), cd) IN appendNew(b, s, Top(s))
    ELSE BRet(b.h, b.cur, ErrNil)

Builder_CharData(b, o, cd) ==
    IF allowInsertChildErr(NodeType(b.h, b.cur), NodeTypeText) # ErrNil
    THEN BRet(b.h, b.cur, ErrHierarchyRequest)
    ELSE IF Len(cd) = 0 /\ ~Has(o, parseWSPCData) THEN BRet(b.h, b.cur, ErrNil)
    ELSE IF ~Has(o, parseTrimPCData) THEN LET s == newText(St(b.h), cd) IN appendNew(b, s, Top(s))
    ELSE IF Has(o, parseWSPCData) \/ Len(TrimSpace(cd)) > 0
         THEN LET s == newText(St(b.h), TrimSpace(cd)) IN appendNew(b, s, Top(s))
    ELSE BRet(b.h, b.cur, ErrNil)

Builder_Comment(b, o, c) ==
    IF ~Has(o, parseComments) THEN BRet(b.h, b.cur, ErrNil)
    ELSE IF allowInsertChildErr(NodeType(b.h, b.cur), NodeTypeComment) # ErrNil
    THEN BRet(b.h, b.cur, ErrHierarchyRequest)
    ELSE LET s == newComment(St(b.h), c) IN appendNew(b, s, Top(s))

Builder_ProcInst(b, o, pi) ==
    LET nt == IF pi.Target = "xml" THEN NodeTypeDeclaration
              ELSE NodeTypeProcessingInstruction
    IN  IF allowInsertChildErr(NodeType(b.h, b.cur), nt) # ErrNil
        THEN BRet(b.h, b.cur, ErrHierarchyRequest)
        ELSE IF nt = NodeTypeDeclaration /\ Has(o, parseDeclaration)
             THEN LET decl == newDeclaration(St(b.h), pi) IN appendNew(b, decl.s, decl.n)
        ELSE IF nt = NodeTypeProcessingInstruction /\ Has(o, parsePI)
             THEN LET s == newProcInst(St(b.h), pi) IN appendNew(b, s, Top(s))
        ELSE BRet(b.h, b.cur, ErrNil)

Builder_Directive(b) == BRet(b.h, b.cur, ErrTODO)

\* Builder.End: io.EOF is normal completion
Builder_End(e) == IF e = "EOF" THEN ErrNil ELSE e

\* the switch of Unmarshaler.UnmarshalXML
Dispatch(b, o, t) ==
    CASE t.type = "StartElement" -> Builder_StartElement(b, [Name |-> t.Name, Attr |-> t.Attr])
      [] t.type = "EndElement" -> Builder_EndElement(b)
      [] t.type = "Comment" -> Builder_Comment(b, o, t.Data)
      [] t.type = "CharData" -> Builder_CharData(b, o, t.Data)
      [] t.type = "Directive" -> Builder_Directive(b)
      [] t.type = "ProcInst" -> Builder_ProcInst(b, o, [Target |-> t.Target, Inst |-> t.Data])

\* Unmarshaler.UnmarshalXML over the token sequence ts, from ts[i] on: the
\* first handler error ends the decoding, the end of the tokens is io.EOF
RECURSIVE UnmarshalXML(_, _, _, _)
UnmarshalXML(b, o, ts, i) ==
    IF i > Len(ts) THEN BRet(b.h, b.cur, Builder_End("EOF"))
    ELSE LET r == Dispatch(b, o, ts[i])
         IN  IF r.err # ErrNil THEN r
             ELSE UnmarshalXML([h |-> r.h, cur |-> r.cur], o, ts, i + 1)

-----------------------------------------------------------------------------
(* Marshaler (marshaler.go) *)

marshalExplicitNS == "marshalExplicitNS"

xmlnsDefault == [Space |-> "", Local |-> "xmlns"]

\* the xml.Attr values of n's attribute list, without the default xmlns
RECURSIVE attrsOf(_, _, _)
attrsOf(h, it, fuel) ==
    IF it = Nil \/ fuel = 0 THEN <<>>
    ELSE LET this == [Name |-> h[it].value.name, Value |-> h[it].value.data]
         IN  (IF this.Name # xmlnsDefault THEN <<this>> ELSE <<>>)
             \o attrsOf(h, h[it].nextSib, fuel - 1)

\* the name an Element is emitted under
elidedName(h, n, explicitNS) ==
    LET name == xmlName(h, n)
    IN  IF h[n].parent # Nil /\ ~explicitNS /\ xmlName(h, h[n].parent).Space = name.Space
        THEN [name EXCEPT !.Space = ""]
        ELSE name

endElementForNode(h, n, explicitNS) == EndElementTok(elidedName(h, n, explicitNS))

\* Encoder.EncodeToken: a start or end tag with an empty local name is
\* refused and nothing is written for it
EncodeToken(tok) ==
    IF tok.type = "StartElement" /\ tok.Name.Local = "" THEN "xml: start tag with no name"
    ELSE IF tok.type = "EndElement" /\ tok.Name.Local = "" THEN "xml: end tag with no name"
    ELSE ErrNil

\* what a thunk returns after enc.EncodeToken(tok): n is returned on success
encoded(tok, n) ==
    LET er == EncodeToken(tok)
    IN  [toks |-> IF er = ErrNil THEN <<tok>> ELSE <<>>, n |-> n, err |-> er]

\* A Marshaler is e = [opts |-> bitflag, emitExplicitNS |-> BOOLEAN]; the
\* thunks return [toks |-> the tokens encoded, n |-> the node returned, err].
encodeNodeValueStart(h, e, n) ==
    LET t == NodeType(h, n)
    IN  CASE t = NodeTypeElement ->
               encoded(StartElementTok(elidedName(h, n, Has(e.opts, marshalExplicitNS)),
                                       attrsOf(h, h[n].firstAttr, Len(h))), n)
          [] t = NodeTypeComment ->
               [toks |-> <<CommentTok(h[n].value.data)>>, n |-> n, err |-> ErrNil]
          [] t = NodeTypeText ->
               [toks |-> <<CharDataTok(h[n].value.data)>>, n |-> n, err |-> ErrNil]
          [] t \in {NodeTypeDeclaration, NodeTypeProcessingInstruction} ->
               [toks |-> <<ProcInstTok(h[n].value.target, h[n].value.data)>>,
                n |-> n, err |-> ErrNil]
          [] t \in {NodeTypeDocumentFragment, NodeTypeDocument} ->
               [toks |-> <<>>, n |-> n, err |-> ErrNil]
          [] OTHER ->
               [toks |-> <<>>, n |-> n, err |-> "MarshalXML called on unexpected node type"]

encodeNodeValueEnd(h, e, n) ==
    IF NodeType(h, n) = NodeTypeElement
    THEN encoded(endElementForNode(h, n, e.emitExplicitNS), Nil)
    ELSE [toks |-> <<>>, n |-> Nil, err |-> ErrNil]

\* a thunk on the encoder stack
StartThunk(n) == [fn |-> "encodeNodeValueStart", n |-> n]
EndThunk(n) == [fn |-> "encodeNodeValueEnd", n |-> n]

runThunk(h, e, th) ==
    IF th.fn = "encodeNodeValueStart" THEN encodeNodeValueStart(h, e, th.n)
    ELSE encodeNodeValueEnd(h, e, th.n)

\* The encoder stack is st = [d |-> the thunks, top last, panic |-> a nil
\* pointer has been dereferenced].
\* for it := ...; it.nextSib != nil; it = it.prevSib { s.push(start(it)) }
\* A nil it panics at it.nextSib; the loop is cut after fuel rounds (on a
\* broken list it may never end).
RECURSIVE pushPrev(_, _, _, _)
pushPrev(h, st, it, fuel) ==
    IF it = Nil \/ fuel = 0 THEN [st EXCEPT !.panic = TRUE]
    ELSE IF h[it].nextSib = Nil THEN st
    ELSE pushPrev(h, [st EXCEPT !.d = Append(@, StartThunk(it))], h[it].prevSib, fuel - 1)

\* treeOrder's loop without s.push(encodeNodeValueEnd(e, enc, n))
pushAfter_noEnd(h, st, r) ==
    IF r.n = Nil THEN st
    ELSE LET first == h[r.n].firstChild
         IN  IF first = Nil THEN st
             ELSE LET last == h[first].prevSib
                  IN  IF last = Nil THEN [st EXCEPT !.panic = TRUE]
                      ELSE pushPrev(h, [st EXCEPT !.d = Append(@, StartThunk(last))],
                                    h[last].prevSib, Len(h) + 1)

\* what one iteration of treeOrder's loop pushes after thunk result r
pushAfter(h, st, r) ==
    IF r.n = Nil THEN st
    ELSE LET s1 == [st EXCEPT !.d = Append(@, EndThunk(r.n))]
             first == h[r.n].firstChild
         IN  IF first = Nil THEN s1
             ELSE LET last == h[first].prevSib
                  IN  IF last = Nil THEN [s1 EXCEPT !.panic = TRUE]
                      ELSE pushPrev(h, [s1 EXCEPT !.d = Append(@, StartThunk(last))],
                                    h[last].prevSib, Len(h) + 1)

\* the loop of treeOrder: out is the events so far, each the thunk run and
\* the tokens it encoded
\* treeOrder's loop going on with the next thunk after a failed one
RECURSIVE treeOrderLoop_onward(_, _, _, _, _)
treeOrderLoop_onward(h, e, st, out, fuel) ==
    IF st.d = <<>> THEN [out |-> out, err |-> ErrNil, d |-> st.d]
    ELSE IF fuel = 0 THEN [out |-> out, err |-> "does not terminate", d |-> st.d]
    ELSE LET th == st.d[Len(st.d)]
             rest == [st EXCEPT !.d = SubSeq(@, 1, Len(@) - 1)]
             r == runThunk(h, e, th)
             out1 == Append(out, [thunk |-> th, toks |-> r.toks])
             next == pushAfter(h, rest, r)
         IN  IF next.panic THEN [out |-> out1, err |-> Panic, d |-> rest.d]
             ELSE LET after == treeOrderLoop_onward(h, e, next, out1, fuel - 1)
                  IN  IF r.err # ErrNil THEN [after EXCEPT !.err = r.err] ELSE after

\* d is what is left on the stack when the loop is left
RECURSIVE treeOrderLoop(_, _, _, _, _)
treeOrderLoop(h, e, st, out, fuel) ==
    IF st.d = <<>> THEN [out |-> out, err |-> ErrNil, d |-> st.d]
    ELSE IF fuel = 0 THEN [out |-> out, err |-> "does not terminate", d |-> st.d]
    ELSE LET th == st.d[Len(st.d)]
             rest == [st EXCEPT !.d = SubSeq(@, 1, Len(@) - 1)]
             r == runThunk(h, e, th)
             out1 == Append(out, [thunk |-> th, toks |-> r.toks])
             next == pushAfter(h, rest, r)
         IN  IF r.err # ErrNil THEN [out |-> out1, err |-> r.err, d |-> rest.d]
             ELSE IF next.panic THEN [out |-> out1, err |-> Panic, d |-> rest.d]
             ELSE treeOrderLoop(h, e, next, out1, fuel - 1)

treeOrder(h, e, n) ==
    treeOrderLoop(h, e, [d |-> <<StartThunk(n)>>, panic |-> FALSE], <<>>, 2 * Len(h) + 2)

\* the tokens of a run, in the order encoded
RECURSIVE Tokens(_)
Tokens(out) ==
    IF out = <<>> THEN <<>> ELSE Head(out).toks \o Tokens(Tail(out))

-----------------------------------------------------------------------------
(* Decoding a token stream into a tree, then marshaling the tree *)

BuilderNames == {[Space |-> "", Local |-> "a"], [Space |-> "x", Local |-> "b"]}

BuilderStartElements ==
    {[Name |-> nm, Attr |-> <<>>] : nm \in BuilderNames}
    \cup {[Name |-> [Space |-> "x", Local |-> "b"],
           Attr |-> <<[Name |-> xmlnsDefault, Value |-> <<"x">>]>>],
          [Name |-> [Space |-> "", Local |-> "a"],
           Attr |-> <<[Name |-> [Space |-> "", Local |-> "k"], Value |-> <<"v">>]>>]}

BuilderCharData == {<<>>, <<" ">>, <<"t">>, <<" ", "t", " ">>}

BuilderComments == {<<"c">>}

BuilderProcInsts ==
    {[Target |-> "xml", Inst |-> <<[ok |-> TRUE, k |-> "version", v |-> "1.0"]>>],
     [Target |-> "pi", Inst |-> <<>>]}

BuilderOpts ==
    SUBSET {parseDeclaration, parsePI, parseComments, parseTrimPCData, parseWSPCData}

MarshalOpts == SUBSET {marshalExplicitNS}

BuilderOps ==
    {"Begin", "StartElement", "EndElement", "CharData", "Comment", "ProcInst", "Directive"}

\* NewBuilder(root, opts...): root is a new Document, a new Element, a new
\* DocumentFragment (CreateDocumentFragment(host), host a new Element), or nil
InitBuilder ==
    /\ \/ heap = newDocument(St(<<>>)).h /\ cursor = 1
       \/ \E se \in BuilderStartElements :
              LET r == newStartElement(St(<<>>), se)
                  s == newDocumentFragment(r.s, r.n)
              IN  Len(r.s.h) = 1 /\ heap = s.h /\ cursor = Top(s)
       \/ \E se \in BuilderStartElements :
              LET r == newStartElement(St(<<>>), se)
              IN  Len(r.s.h) = 1 /\ heap = r.s.h /\ cursor = r.n
       \/ heap = <<>> /\ cursor = Nil
    /\ opts \in BuilderOpts
    /\ call = NoCall
    /\ err = ErrNil
    /\ output = NoOutput
    /\ nops = 0
    /\ jd = NoJD
    /\ dec = NoDec
    /\ iter = NoIt
    /\ mgr = NoMgr

\* the decoder handed token t to a handler, which returned r
Handled(op, t, r) ==
    /\ err = ErrNil
    /\ Len(r.h) <= MaxBuilt
    /\ heap' = r.h
    /\ cursor' = r.cur
    /\ err' = r.err
    /\ call' = [op |-> op, n |-> r.cur, child |-> Nil, ref |-> Nil, arg |-> t]
    /\ UNCHANGED <<opts, output, nops, jd, dec, iter, mgr>>

Decoding == call.op \in BuilderOps

Begin ==
    /\ call.op = "none"
    /\ Handled("Begin", NoToken, Builder_Begin([h |-> heap, cur |-> cursor]))

StartElement(se) ==
    /\ Decoding
    /\ Handled("StartElement", StartElementTok(se.Name, se.Attr),
               Builder_StartElement([h |-> heap, cur |-> cursor], se))

EndElement(nm) ==
    /\ Decoding
    /\ Handled("EndElement", EndElementTok(nm),
               Builder_EndElement([h |-> heap, cur |-> cursor]))

CharData(cd) ==
    /\ Decoding
    /\ Handled("CharData", CharDataTok(cd),
               Builder_CharData([h |-> heap, cur |-> cursor], opts, cd))

Comment(c) ==
    /\ Decoding
    /\ Handled("Comment", CommentTok(c),
               Builder_Comment([h |-> heap, cur |-> cursor], opts, c))

ProcInst(pi) ==
    /\ Decoding
    /\ Handled("ProcInst", ProcInstTok(pi.Target, pi.Inst),
               Builder_ProcInst([h |-> heap, cur |-> cursor], opts, pi))

Directive ==
    /\ Decoding
    /\ Handled("Directive", DirectiveTok, Builder_Directive([h |-> heap, cur |-> cursor]))

\* d.Token() returned error e: the decoding ends
End(e) ==
    /\ Decoding
    /\ Handled("End", NoToken, BRet(heap, cursor, Builder_End(e)))

\* NewMarshaler(root, mo...) written out with treeOrder
MarshalXML(mo) ==
    /\ call.op = "End"
    /\ err = ErrNil
    /\ LET root == Builder_Root(heap, cursor, Len(heap))
           r == treeOrder(heap, [opts |-> mo, emitExplicitNS |-> FALSE], root)
       IN  /\ output' = [out |-> r.out, err |-> r.err, opts |-> mo]
           /\ call' = Called("MarshalXML", root, Nil, Nil)
           /\ err' = r.err
    /\ UNCHANGED <<heap, cursor, opts, nops, jd, dec, iter, mgr>>

NextBuilder ==
    \/ Begin
    \/ \E se \in BuilderStartElements : StartElement(se)
    \/ \E nm \in BuilderNames : EndElement(nm)
    \/ \E cd \in BuilderCharData : CharData(cd)
    \/ \E c \in BuilderComments : Comment(c)
    \/ \E pi \in BuilderProcInsts : ProcInst(pi)
    \/ Directive
    \/ \E e \in {"EOF", "unexpected EOF"} : End(e)
    \/ \E mo \in MarshalOpts : MarshalXML(mo)

SpecBuilder == InitBuilder /\ [][NextBuilder]_vars

-----------------------------------------------------------------------------
(* JSON values and the token source (encoding/json Decoder) *)

\* a JSON value: t is "object" (m: its members [k, v] in order), "array"
\* (e: its elements), "string", "number" (v: the literal's characters),
\* "bool" (b) or "null"; a key k is a sequence of characters
mkJSON(t, v, b, m, e) == [t |-> t, v |-> v, b |-> b, m |-> m, e |-> e]
JObject(m) == mkJSON("object", <<>>, FALSE, m, <<>>)
JArray(e) == mkJSON("array", <<>>, FALSE, <<>>, e)
JString(v) == mkJSON("string", v, FALSE, <<>>, <<>>)
JNumber(v) == mkJSON("number", v, FALSE, <<>>, <<>>)
JBool(b) == mkJSON("bool", <<>>, b, <<>>, <<>>)
JNull == mkJSON("null", <<>>, FALSE, <<>>, <<>>)

\* a json.Token: a Delim (v is the delimiter), a string, a json.Number, a
\* bool or nil
mkJSToken(t, v, b) == [t |-> t, v |-> v, b |-> b]
Delim(c) == mkJSToken("Delim", <<c>>, FALSE)

\* the tokens json.Decoder.Token returns for value j, in order
RECURSIVE tokensOf(_)
RECURSIVE memberTokens(_, _)
RECURSIVE elementTokens(_, _)
tokensOf(j) ==
    CASE j.t = "object" -> <<Delim("{")>> \o memberTokens(j.m, 1) \o <<Delim("}")>>
      [] j.t = "array" -> <<Delim("[")>> \o elementTokens(j.e, 1) \o <<Delim("]")>>
      [] OTHER -> <<mkJSToken(j.t, j.v, j.b)>>

memberTokens(m, i) ==
    IF i > Len(m) THEN <<>>
    ELSE <<mkJSToken("string", m[i].k, FALSE)>> \o tokensOf(m[i].v) \o memberTokens(m, i + 1)

elementTokens(e, i) ==
    IF i > Len(e) THEN <<>> ELSE tokensOf(e[i]) \o elementTokens(e, i + 1)

\* io.EOF and a json.SyntaxError
ErrEOF == "EOF"
ErrSyntax == "json: syntax error"

\* The decoder d reads d.in from d.pos on.  The read at position d.fail.at
\* (0: none) fails with d.fail.err, and so does every read after it.
\* Decoder.Token: [d |-> the decoder afterwards, t |-> the token, err]
Token(d) ==
    IF d.fail.at = d.pos
    THEN [d |-> [d EXCEPT !.failed = TRUE], t |-> mkJSToken("nil", <<>>, FALSE),
          err |-> d.fail.err]
    ELSE IF d.pos > Len(d.in)
    THEN [d |-> [d EXCEPT !.failed = TRUE], t |-> mkJSToken("nil", <<>>, FALSE),
          err |-> ErrEOF]
    ELSE [d |-> [d EXCEPT !.pos = @ + 1], t |-> d.in[d.pos], err |-> ErrNil]

\* Decoder.More: the next byte can be read and is neither ']' nor '}'
More(d) ==
    IF d.fail.at = d.pos THEN d.fail.more
    ELSE /\ d.pos <= Len(d.in)
         /\ ~(d.in[d.pos].t = "Delim" /\ d.in[d.pos].v \in {<<"]">>, <<"}">>})

-----------------------------------------------------------------------------
(* JSON to token bridge (json_decoder.go) *)

\* the Go string whose bytes are s, for the strings of at most two bytes
\* over a, b and ':' that the model's keys split into
GoString(s) ==
    IF s = <<>> THEN ""
    ELSE IF Len(s) = 1 THEN s[1]
    ELSE CASE s = <<"a", "a">> -> "aa" [] s = <<"a", "b">> -> "ab"
           [] s = <<"a", ":">> -> "a:" [] s = <<"b", "a">> -> "ba"
           [] s = <<"b", "b">> -> "bb" [] s = <<"b", ":">> -> "b:"
           [] s = <<":", "a">> -> ":a" [] s = <<":", "b">> -> ":b"
           [] s = <<":", ":">> -> "::"

\* strings.Index(s, c) + 1: the first i with s[i] = c, 0 when there is none
RECURSIVE indexFrom(_, _, _)
indexFrom(s, c, i) ==
    IF i > Len(s) THEN 0 ELSE IF s[i] = c THEN i ELSE indexFrom(s, c, i + 1)

\* jsTagToName that splits only when something follows the colon
jsTagToName_needLocal(input) ==
    LET i == indexFrom(input, ":", 1)
    IN  IF i - 1 > 0 /\ i - 1 < Len(input) - 1
        THEN [Space |-> GoString(SubSeq(input, 1, i - 1)),
              Local |-> GoString(SubSeq(input, i + 1, Len(input)))]
        ELSE [Space |-> "", Local |-> GoString(input)]

jsTagToName(input) ==
    LET i == indexFrom(input, ":", 1)
    IN  IF i - 1 > 0
        THEN [Space |-> GoString(SubSeq(input, 1, i - 1)),
              Local |-> GoString(SubSeq(input, i + 1, Len(input)))]
        ELSE [Space |-> "", Local |-> GoString(input)]

\* jdState, and the zero jdState that pop returns on an empty stack
mkState(fn, key) == [fn |-> fn, key |-> key]
ZeroState == mkState("nil", <<>>)

\* jdStack.pop: [jds |-> the state popped, stack |-> the stack afterwards]
pop(stack) ==
    IF Len(stack) > 0
    THEN [jds |-> stack[Len(stack)], stack |-> SubSeq(stack, 1, Len(stack) - 1)]
    ELSE [jds |-> ZeroState, stack |-> stack]

\* JSONDecoder.bail
bail(d, e) == [d EXCEPT !.error = e, !.state = "nil"]

\* A call of the TokenDecoder (the Builder over d.h, d.cur) with token tok
\* that returned r: the call is logged in d.emitted; d.late records a call
\* made after a read or a call had failed.
consumed(d, tok, r) ==
    [d |-> [d EXCEPT !.h = r.h, !.cur = r.cur,
                     !.emitted = Append(@, tok),
                     !.late = @ \/ d.failed,
                     !.failed = @ \/ r.err # ErrNil],
     err |-> r.err]

dStartElement(d, name) ==
    consumed(d, StartElementTok(name, <<>>),
             Builder_StartElement([h |-> d.h, cur |-> d.cur], [Name |-> name, Attr |-> <<>>]))

dCharData(d, value) ==
    consumed(d, CharDataTok(value), Builder_CharData([h |-> d.h, cur |-> d.cur], d.opts, value))

dEndElement(d, name) ==
    consumed(d, EndElementTok(name), Builder_EndElement([h |-> d.h, cur |-> d.cur]))

\* JSONDecoder.decode
decode(d, name, value) ==
    LET r1 == dStartElement(d, name)
        r2 == dCharData(r1.d, value)
    IN  IF r1.err # ErrNil THEN r1
        ELSE IF r2.err # ErrNil THEN r2
        ELSE dEndElement(r2.d, name)

\* the string decode is called with for scalar token t
scalarText(t) ==
    CASE t.t = "string" -> t.v
      [] t.t = "bool" -> IF t.b THEN <<"t", "r", "u", "e">> ELSE <<"f", "a", "l", "s", "e">>
      [] t.t = "number" -> t.v
      [] t.t = "nil" -> <<>>
      [] t.t = "null" -> <<>>

jsDecodeStart(d) ==
    LET tk == Token(d)
    IN  IF tk.err # ErrNil THEN bail(tk.d, tk.err)
        ELSE IF tk.t = Delim("{") THEN [tk.d EXCEPT !.state = "jsDecodeObject"]
        ELSE IF tk.t = Delim("[") THEN [tk.d EXCEPT !.state = "jsDecodeArray"]
        ELSE bail(tk.d, "unexpected JSON token")

RECURSIVE jsDecodeArray(_)
jsDecodeArray(d) ==
    IF More(d)
    THEN LET tk == Token(d)
             p == pop(tk.d.stack)
             key == p.jds.key
             name == jsTagToName(key)
             d1 == [tk.d EXCEPT !.stack = Append(p.stack, p.jds)]
         IN  IF tk.err # ErrNil THEN bail(tk.d, tk.err)
             ELSE IF tk.t = Delim("{")
             THEN LET d2 == [d1 EXCEPT !.stack = Append(@, mkState("jsDecodeArray", key))]
                      r == dStartElement(d2, name)
                  IN  IF r.err # ErrNil THEN bail(r.d, r.err)
                      ELSE [r.d EXCEPT !.state = "jsDecodeObject"]
             ELSE IF tk.t.t = "Delim"
             THEN bail(d1, "decoding of nested arrays unsupported")
             ELSE LET r == decode(d1, name, scalarText(tk.t))
                  IN  IF r.err # ErrNil THEN bail(r.d, r.err)
                      ELSE jsDecodeArray(r.d)
    ELSE LET tk == Token(d)
             p == pop(tk.d.stack)
         IN  IF tk.err # ErrNil THEN bail(tk.d, tk.err)
             ELSE [tk.d EXCEPT !.stack = p.stack, !.state = p.jds.fn]

RECURSIVE jsDecodeObject(_)
jsDecodeObject(d) ==
    IF More(d)
    THEN LET tk1 == Token(d)
             tk2 == Token(tk1.d)
             d0 == tk2.d
             key == tk1.t.v
             name == jsTagToName(key)
             pushed == [d0 EXCEPT !.stack = Append(@, mkState("jsDecodeObject", key))]
         IN  IF tk1.err # ErrNil THEN bail(d0, tk1.err)
             ELSE IF tk2.err # ErrNil THEN bail(d0, tk1.err)
             ELSE IF tk1.t.t # "string" THEN bail(d0, "bad JSON object key type")
             ELSE IF tk2.t = Delim("[")
             THEN [pushed EXCEPT !.state = "jsDecodeArray"]
             ELSE IF tk2.t = Delim("{")
             THEN LET r == dStartElement(pushed, name)
                  IN  IF r.err # ErrNil THEN bail(r.d, r.err)
                      ELSE [r.d EXCEPT !.state = "jsDecodeObject"]
             ELSE IF tk2.t.t = "Delim" THEN bail(d0, "unexpected delimiter type")
             ELSE LET r == decode(d0, name, scalarText(tk2.t))
                  IN  IF r.err # ErrNil THEN bail(r.d, r.err)
                      ELSE jsDecodeObject(r.d)
    ELSE LET tk == Token(d)
             p == pop(tk.d.stack)
             d1 == [tk.d EXCEPT !.stack = p.stack]
         IN  IF tk.err # ErrNil THEN bail(tk.d, tk.err)
             ELSE IF p.jds.key # <<>>
             THEN LET r == dEndElement(d1, jsTagToName(p.jds.key))
                  IN  IF r.err # ErrNil THEN bail(r.d, r.err)
                      ELSE [r.d EXCEPT !.state = p.jds.fn]
             ELSE [d1 EXCEPT !.state = p.jds.fn]

-----------------------------------------------------------------------------
(* Decoding JSON into a tree: Unmarshaler.JSONReader().ReadFrom *)

ka == <<"a">>
kb == <<"b">>
one == JNumber(<<"1">>)
two == JNumber(<<"2">>)
member(k, v) == [k |-> k, v |-> v]

\* {"a:b": 1, "a:": 2}
PrefixBad == JObject(<<member(<<"a", ":", "b">>, one), member(<<"a", ":">>, two)>>)

JSONDocs ==
    {JObject(<<>>),
     JArray(<<>>),
     one,
     JObject(<<member(ka, JArray(<<>>))>>),
     JObject(<<member(ka, JObject(<<>>))>>),
     JObject(<<member(ka, JArray(<<JString(<<"o">>), one>>)), member(kb, JBool(TRUE))>>),
     JObject(<<member(ka, JArray(<<JObject(<<member(kb, JNull)>>), JObject(<<>>)>>)),
               member(kb, two)>>),
     JObject(<<member(ka, JObject(<<member(kb, JObject(<<member(ka, JBool(FALSE))>>))>>))>>),
     JObject(<<member(<<>>, JObject(<<>>)), member(kb, one)>>),
     JObject(<<member(<<>>, one)>>),
     JArray(<<one, JObject(<<member(ka, two)>>)>>),
     JObject(<<member(ka, JArray(<<JArray(<<one>>)>>))>>),
     PrefixBad,
     JObject(<<member(<<":", "b">>, one)>>)}

NoFail == [at |-> 0, more |-> FALSE, err |-> ErrNil]

\* the ways reading the tokens of a document can fail: the input ends
\* before token k, or the bytes of token k are malformed
Fails(in) ==
    {NoFail}
    \cup {[at |-> k, more |-> FALSE, err |-> ErrEOF] : k \in 1..Len(in)}
    \cup {[at |-> k, more |-> m, err |-> ErrSyntax] : k \in 1..Len(in), m \in BOOLEAN}

JSONOpts == {{}, {parseTrimPCData, parseWSPCData}}

\* the JSONDecoder ReadFrom makes over input doc, after Begin
newJSONDecoder(doc, fail) ==
    [doc |-> doc, in |-> tokensOf(doc), pos |-> 1, fail |-> fail,
     stack |-> <<>>, error |-> ErrNil, state |-> "jsDecodeStart",
     emitted |-> <<>>, failed |-> FALSE, late |-> FALSE]

InitJSON ==
    /\ \/ heap = newDocument(St(<<>>)).h /\ cursor = 1
       \/ LET r == newStartElement(St(<<>>), [Name |-> [Space |-> "", Local |-> "a"],
                                             Attr |-> <<>>])
              s == newDocumentFragment(r.s, r.n)
          IN  heap = s.h /\ cursor = Top(s)
    /\ opts \in JSONOpts
    /\ \E doc \in JSONDocs : \E fail \in Fails(tokensOf(doc)) :
           jd = newJSONDecoder(doc, fail)
    /\ dec = NoDec
    /\ iter = NoIt
    /\ mgr = NoMgr
    /\ call = Called("Begin", cursor, Nil, Nil)
    /\ err = ErrNil
    /\ output = NoOutput
    /\ nops = 0

\* one pass of runJSDecoder's loop: state function fn ran and returned
JSStep(fn, r) ==
    /\ jd.state = fn
    /\ heap' = r.h
    /\ cursor' = r.cur
    /\ jd' = [f \in DOMAIN jd |-> r[f]]
    /\ call' = Called(fn, r.cur, Nil, Nil)
    /\ UNCHANGED <<err, opts, output, nops, dec, iter, mgr>>

\* the JSONDecoder with the Builder it drives
Bridge == [h |-> heap, cur |-> cursor, opts |-> opts] @@ jd

JSDecodeStart == JSStep("jsDecodeStart", jsDecodeStart(Bridge))

JSDecodeObject == JSStep("jsDecodeObject", jsDecodeObject(Bridge))

JSDecodeArray == JSStep("jsDecodeArray", jsDecodeArray(Bridge))

\* the loop has ended: Run returns d.End(d.error), ReadFrom rj.End of that
JSRun ==
    /\ jd.state = "nil"
    /\ jd' = [jd EXCEPT !.state = "done"]
    /\ err' = Builder_End(Builder_End(jd.error))
    /\ call' = Called("End", cursor, Nil, Nil)
    /\ UNCHANGED <<heap, cursor, opts, output, nops, dec, iter, mgr>>

NextJSON ==
    \/ JSDecodeStart
    \/ JSDecodeObject
    \/ JSDecodeArray
    \/ JSRun
    \/ \E mo \in MarshalOpts : MarshalXML(mo)

SpecJSON == InitJSON /\ [][NextJSON]_vars

-----------------------------------------------------------------------------
(* YANG schema entries and the module collection (modules.go) *)

mkEntry(kind, name, dir) == [Kind |-> kind, Name |-> name, Dir |-> dir]

\* The processed schema of one module, module1 with namespace urn:mod1:
\* an entry is its index, Dir the set of its children
\*   container system {
\*     leaf host-name;
\*     choice address {
\*       case ethernet { leaf ethernet-address; container deep { leaf mbps; } }
\*       leaf any-address;       (held by the choice entry itself)
\*     } }
Schema ==
    <<mkEntry("DirectoryEntry", "module1", {2}),
      mkEntry("DirectoryEntry", "system", {3, 4}),
      mkEntry("LeafEntry", "host-name", {}),
      mkEntry("ChoiceEntry", "address", {5, 7}),
      mkEntry("CaseEntry", "ethernet", {6, 8}),
      mkEntry("LeafEntry", "ethernet-address", {}),
      mkEntry("LeafEntry", "any-address", {}),
      mkEntry("DirectoryEntry", "deep", {9}),
      mkEntry("LeafEntry", "mbps", {})>>

\* c.ms.Modules: module name -> [entry, Namespace]
Modules == [module1 |-> [entry |-> 1, Namespace |-> "urn:mod1"]]

\* Entry.Namespace().Name: every entry of the schema belongs to module1
Namespace(e) == Modules.module1.Namespace

ErrNotFound == "not found"

\* Collection.ModuleEntry
ModuleEntry(name) ==
    IF name \in DOMAIN Modules
    THEN [entry |-> Modules[name].entry, err |-> ErrNil]
    ELSE [entry |-> Nil, err |-> ErrNotFound]

\* Collection.RootEntry
RootEntry(name) ==
    LET found == {e \in 1..Len(Schema) :
                      \E m \in DOMAIN Modules :
                          /\ Modules[m].Namespace = name.Space
                          /\ e \in Schema[Modules[m].entry].Dir
                          /\ Schema[e].Name = name.Local}
    IN  IF found # {} THEN [entry |-> CHOOSE e \in found : TRUE, err |-> ErrNil]
        ELSE [entry |-> Nil, err |-> ErrNotFound]

-----------------------------------------------------------------------------
(* Schema-guided decoder (datastore/decoder.go) *)

ErrUnexpectedElementName == "unexpected child element"
ErrUnexpectedNamespace == "unexpected child element in namespace"
ErrUnknownModule == "unexpected element in unknown module"
ErrNotLeaf == "schema node is not a leaf"
ErrUnexpectedEOF == "unexpected EOF"

isData(e) ==
    Schema[e].Kind \in {"LeafEntry", "DirectoryEntry", "AnyXMLEntry", "AnyDataEntry"}

\* the children of entry e named local that are data
named(e, local) == {c \in Schema[e].Dir : Schema[c].Name = local /\ isData(c)}

\* dataChild(e, n): the child named n.Local, or one found through a choice
\* or a case below e, or through a case below a child of e; Nil when none.
\* (Names are unique below an entry of Schema, so the order in which the
\* code ranges over e.Dir does not matter.)
\* dataChild that does not look into the cases below the children of e
dataChild_shallow(e, n) ==
    IF e = Nil THEN Nil
    ELSE IF named(e, n.Local) # {} THEN CHOOSE c \in named(e, n.Local) : TRUE
    ELSE LET through ==
                 UNION {(IF Schema[ch].Kind \in {"ChoiceEntry", "CaseEntry"}
                         THEN named(ch, n.Local) ELSE {})
                        : ch \in Schema[e].Dir}
         IN  IF through # {} THEN CHOOSE c \in through : TRUE ELSE Nil

dataChild(e, n) ==
    IF e = Nil THEN Nil
    ELSE IF named(e, n.Local) # {} THEN CHOOSE c \in named(e, n.Local) : TRUE
    ELSE LET through ==
                 UNION {(IF Schema[ch].Kind \in {"ChoiceEntry", "CaseEntry"}
                         THEN named(ch, n.Local) ELSE {})
                        \cup UNION {named(chch, n.Local) :
                                        chch \in {x \in Schema[ch].Dir :
                                                      Schema[x].Kind = "CaseEntry"}}
                        : ch \in Schema[e].Dir}
         IN  IF through # {} THEN CHOOSE c \in through : TRUE ELSE Nil

rfc6020Lookup(n) == [name |-> n, err |-> ErrNil]

rfc7951Lookup(n) ==
    IF n.Space = "" THEN [name |-> n, err |-> ErrNil]
    ELSE IF ModuleEntry(n.Space).err = ErrNil
    THEN [name |-> [Space |-> Modules[n.Space].Namespace, Local |-> n.Local],
          err |-> ErrNil]
    ELSE [name |-> n, err |-> ErrUnknownModule]

\* un.childname(un.Modules, n)
childname(un, n) ==
    IF un.childname = "rfc7951Lookup" THEN rfc7951Lookup(n) ELSE rfc6020Lookup(n)

\* The Decoder is un = [h, cur, schema, stack, skip, errors, childname]:
\* cur is un.Node and schema an entry or Nil.  Its methods return un as it
\* is afterwards, with the error they return in field err.
\* Decoder.dataChild
Decoder_dataChild(un, n) ==
    LET candidate == IF un.schema = Nil THEN RootEntry(n).entry
                     ELSE dataChild(un.schema, n)
    IN  IF candidate = Nil
        THEN [candidate |-> Nil, err |-> ErrUnexpectedElementName]
        ELSE IF n.Space # "" /\ Namespace(candidate) # n.Space
        THEN [candidate |-> Nil, err |-> ErrUnexpectedNamespace]
        ELSE [candidate |-> candidate, err |-> ErrNil]

\* A restore frame is the closure StartElement pushes: it sets un.schema
\* and un.Node, and un.skip = false when unskip.  skip0 is un.skip at the
\* call, which no closure captures; nothing of the Decoder reads it.
mkFrame(un, unskip) ==
    [schema |-> un.schema, node |-> un.cur, unskip |-> unskip, skip0 |-> un.skip]

\* calling a restore frame
restore(un, f) ==
    [un EXCEPT !.schema = f.schema, !.cur = f.node,
               !.skip = IF f.unskip THEN FALSE ELSE @]

\* Decoder.StartElement that creates the element before resolving its name
Decoder_StartElement_created(un, se) ==
    LET nm == childname(un, se.Name)
        dc == Decoder_dataChild(un, nm.name)
        e == IF nm.err # ErrNil THEN nm.err ELSE dc.err
        r == newStartElement(St(un.h), [se EXCEPT !.Name = nm.name])
        a == node_AppendChild(r.s.h, un.cur, r.n)
    IN  IF e = ErrNil
        THEN IF ~un.skip
             THEN IF a.err # ErrNil THEN [un EXCEPT !.h = a.h, !.err = a.err]
                  ELSE [un EXCEPT !.h = a.h, !.schema = dc.candidate, !.cur = r.n,
                                  !.stack = Append(@, mkFrame(un, FALSE)),
                                  !.err = ErrNil]
             ELSE [un EXCEPT !.stack = Append(@, mkFrame(un, FALSE)), !.err = ErrNil]
        ELSE [un EXCEPT !.h = a.h, !.errors = Append(@, e), !.skip = TRUE,
                        !.stack = Append(@, mkFrame(un, TRUE)), !.err = ErrNil]

Decoder_StartElement(un, se) ==
    LET nm == childname(un, se.Name)
        dc == Decoder_dataChild(un, nm.name)
        e == IF nm.err # ErrNil THEN nm.err ELSE dc.err
        r == newStartElement(St(un.h), [se EXCEPT !.Name = nm.name])
        a == node_AppendChild(r.s.h, un.cur, r.n)
    IN  IF e = ErrNil
        THEN IF ~un.skip
             THEN IF a.err # ErrNil THEN [un EXCEPT !.h = a.h, !.err = a.err]
                  ELSE [un EXCEPT !.h = a.h, !.schema = dc.candidate, !.cur = r.n,
                                  !.stack = Append(@, mkFrame(un, FALSE)),
                                  !.err = ErrNil]
             ELSE [un EXCEPT !.stack = Append(@, mkFrame(un, FALSE)), !.err = ErrNil]
        ELSE [un EXCEPT !.errors = Append(@, e), !.skip = TRUE,
                        !.stack = Append(@, mkFrame(un, TRUE)), !.err = ErrNil]

\* Decoder.EndElement; yangDecoderStack.pop of an empty stack panics
Decoder_EndElement(un) ==
    IF un.stack = <<>> THEN [un EXCEPT !.err = Panic]
    ELSE [restore([un EXCEPT !.stack = SubSeq(@, 1, Len(@) - 1)], un.stack[Len(un.stack)])
              EXCEPT !.err = ErrNil]

\* Decoder.CharData that does not push the popped frame back
Decoder_CharData_popped(un, cd) ==
    IF un.skip THEN [un EXCEPT !.err = ErrNil]
    ELSE LET un1 == IF un.schema = Nil \/ Schema[un.schema].Kind # "LeafEntry"
                    THEN [un EXCEPT !.errors = Append(@, ErrNotLeaf)]
                    ELSE un
             text == newText(St(un1.h), cd)
             a == node_AppendChild(text.h, un1.cur, Top(text))
         IN  IF un1.stack = <<>> THEN [un1 EXCEPT !.err = Panic]
             ELSE IF a.err # ErrNil THEN [un1 EXCEPT !.h = a.h, !.err = a.err]
             ELSE [restore([un1 EXCEPT !.h = a.h,
                                       !.stack = SubSeq(@, 1, Len(@) - 1)],
                           un1.stack[Len(un1.stack)])
                       EXCEPT !.err = ErrNil]

Decoder_CharData(un, cd) ==
    IF un.skip THEN [un EXCEPT !.err = ErrNil]
    ELSE LET un1 == IF un.schema = Nil \/ Schema[un.schema].Kind # "LeafEntry"
                    THEN [un EXCEPT !.errors = Append(@, ErrNotLeaf)]
                    ELSE un
             text == newText(St(un1.h), cd)
             a == node_AppendChild(text.h, un1.cur, Top(text))
         IN  IF un1.stack = <<>> THEN [un1 EXCEPT !.err = Panic]
             ELSE IF a.err # ErrNil THEN [un1 EXCEPT !.h = a.h, !.err = a.err]
             ELSE [restore([un1 EXCEPT !.h = a.h], un1.stack[Len(un1.stack)])
                       EXCEPT !.err = ErrNil]

Decoder_Comment(un) == [un EXCEPT !.err = ErrNil]

Decoder_ProcInst(un) == [un EXCEPT !.err = ErrNil]

Decoder_Directive(un) == [un EXCEPT !.err = ErrTODO]

Decoder_End(un, e) ==
    IF e = ErrEOF
    THEN IF un.h[un.cur].parent = Nil THEN [un EXCEPT !.err = ErrNil]
         ELSE [un EXCEPT !.err = ErrUnexpectedEOF]
    ELSE [un EXCEPT !.err = e]

-----------------------------------------------------------------------------
(* Decoding a token stream against the schema *)

MaxEvents == 6

DecoderNames ==
    {[Space |-> "urn:mod1", Local |-> "system"],
     [Space |-> "module1", Local |-> "system"],
     [Space |-> "", Local |-> "host-name"],
     [Space |-> "foo", Local |-> "host-name"],
     [Space |-> "", Local |-> "hostname"],
     [Space |-> "", Local |-> "ethernet-address"],
     [Space |-> "", Local |-> "any-address"],
     [Space |-> "", Local |-> "address"],
     [Space |-> "", Local |-> "deep"],
     [Space |-> "", Local |-> "mbps"]}

DecoderOps == {"Begin", "StartElement", "EndElement", "CharData", "Comment", "ProcInst"}

\* &Decoder{Node: dom.NewDocument(nil), Modules: c} after Initialize and Begin
InitDecoder ==
    /\ heap = newDocument(St(<<>>)).h
    /\ cursor = 1
    /\ iter = NoIt
    /\ mgr = NoMgr
    /\ dec \in {[schema |-> Nil, stack |-> <<>>, skip |-> FALSE, errors |-> <<>>,
                 childname |-> l] : l \in {"rfc6020Lookup", "rfc7951Lookup"}}
    /\ call = Called("Begin", 1, Nil, Nil)
    /\ err = ErrNil
    /\ opts = {}
    /\ output = NoOutput
    /\ jd = NoJD
    /\ nops = 0

\* the Decoder d with the tree h it builds from cursor c
UnOf(h, c, d) == [h |-> h, cur |-> c, err |-> ErrNil] @@ d
Un == UnOf(heap, cursor, dec)

\* the Decoder handled token t with method op, which left it as r
Event(op, t, r) ==
    /\ call.op \in DecoderOps
    /\ err = ErrNil
    /\ nops < MaxEvents
    /\ nops' = nops + 1
    /\ heap' = r.h
    /\ cursor' = r.cur
    /\ err' = r.err
    /\ dec' = [f \in DOMAIN dec |-> r[f]]
    /\ call' = [op |-> op, n |-> r.cur, child |-> Nil, ref |-> Nil, arg |-> t]
    /\ UNCHANGED <<opts, output, jd, iter, mgr>>

DecStartElement(nm) ==
    Event("StartElement", StartElementTok(nm, <<>>),
          Decoder_StartElement(Un, [Name |-> nm, Attr |-> <<>>]))

DecEndElement == Event("EndElement", EndElementTok(NoName), Decoder_EndElement(Un))

DecCharData(cd) == Event("CharData", CharDataTok(cd), Decoder_CharData(Un, cd))

DecComment == Event("Comment", CommentTok(<<>>), Decoder_Comment(Un))

DecProcInst == Event("ProcInst", ProcInstTok("t", <<>>), Decoder_ProcInst(Un))

DecDirective == Event("Directive", DirectiveTok, Decoder_Directive(Un))

DecEnd(e) ==
    /\ call.op \in DecoderOps
    /\ err = ErrNil
    /\ err' = Decoder_End(Un, e).err
    /\ call' = [op |-> "End", n |-> cursor, child |-> Nil, ref |-> Nil,
                arg |-> mkToken("End", NoName, <<>>, <<>>, e)]
    /\ UNCHANGED <<heap, cursor, opts, output, nops, jd, dec, iter, mgr>>

NextDecoder ==
    \/ \E nm \in DecoderNames : DecStartElement(nm)
    \/ DecEndElement
    \/ DecCharData(<<"t">>)
    \/ DecComment
    \/ DecProcInst
    \/ DecDirective
    \/ \E e \in {ErrEOF, ErrSyntax} : DecEnd(e)

SpecDecoder == InitDecoder /\ [][NextDecoder]_vars

-----------------------------------------------------------------------------
(* Configuring the decoder (Decoder.Initialize, Unmarshaler.tdInit) *)

\* Go strings are sequences of one-character strings here, so that
\* strings.ToLower has something to do.
upper == <<"A", "B", "C", "D", "E", "F", "G", "H", "I", "J", "K", "L", "M",
           "N", "O", "P", "Q", "R", "S", "T", "U", "V", "W", "X", "Y", "Z">>
lower == <<"a", "b", "c", "d", "e", "f", "g", "h", "i", "j", "k", "l", "m",
           "n", "o", "p", "q", "r", "s", "t", "u", "v", "w", "x", "y", "z">>

toLowerRune(c) ==
    IF \E i \in DOMAIN upper : upper[i] = c
    THEN lower[CHOOSE i \in DOMAIN upper : upper[i] = c]
    ELSE c

\* strings.ToLower
ToLower(s) == [i \in DOMAIN s |-> toLowerRune(s[i])]

str_name_resolver ==
    <<"n", "a", "m", "e", ".", "r",
      "e", "s", "o", "l", "v", "e", "r">>
str_mediatype == <<"m", "e", "d", "i", "a", "t", "y", "p", "e">>
str_format == <<"f", "o", "r", "m", "a", "t">>
str_rfc7951 == <<"r", "f", "c", "7", "9", "5", "1">>
str_yang_data_json ==
    <<"a", "p", "p", "l", "i", "c", "a", "t", "i", "o", "n", "/", "y",
      "a", "n", "g", "-", "d", "a", "t", "a", "+", "j", "s", "o", "n">>
str_json == <<"j", "s", "o", "n">>
str_default == <<"d", "e", "f", "a", "u", "l", "t">>
str_rfc6020 == <<"r", "f", "c", "6", "0", "2", "0">>
str_yang_data_xml ==
    <<"a", "p", "p", "l", "i", "c", "a", "t", "i", "o", "n", "/",
      "y", "a", "n", "g", "-", "d", "a", "t", "a", "+", "x", "m", "l">>
str_xml == <<"x", "m", "l">>

ErrOddArguments == "called with odd number of arguments"
ErrUnsupportedValue == "unsupported key value"

\* Decoder.Initialize(kv...): the Decoder afterwards, with the returned
\* error in field err
Decoder_Initialize_exact(un, kv) ==
    IF Len(kv) % 2 # 0 THEN [un EXCEPT !.err = ErrOddArguments]
    ELSE LET known == {i \in 1..(Len(kv) \div 2) :
                           kv[2 * i - 1] \in {str_name_resolver, str_mediatype, str_format}}
             last == CHOOSE i \in known : \A j \in known : j <= i
             format == IF known = {} THEN <<>> ELSE kv[2 * last]
         IN  IF format \in {str_rfc7951, str_yang_data_json, str_json}
             THEN [un EXCEPT !.childname = "rfc7951Lookup", !.err = ErrNil]
             ELSE IF format \in {str_default, str_rfc6020, str_yang_data_xml, str_xml}
             THEN [un EXCEPT !.childname = "rfc6020Lookup", !.err = ErrNil]
             ELSE [un EXCEPT !.childname = "rfc6020Lookup", !.err = ErrUnsupportedValue]

Decoder_Initialize(un, kv) ==
    IF Len(kv) % 2 # 0 THEN [un EXCEPT !.err = ErrOddArguments]
    ELSE LET known == {i \in 1..(Len(kv) \div 2) :
                           kv[2 * i - 1] \in {str_name_resolver, str_mediatype, str_format}}
             last == CHOOSE i \in known : \A j \in known : j <= i
             format == IF known = {} THEN <<>> ELSE ToLower(kv[2 * last])
         IN  IF format \in {str_rfc7951, str_yang_data_json, str_json}
             THEN [un EXCEPT !.childname = "rfc7951Lookup", !.err = ErrNil]
             ELSE IF format \in {str_default, str_rfc6020, str_yang_data_xml, str_xml}
             THEN [un EXCEPT !.childname = "rfc6020Lookup", !.err = ErrNil]
             ELSE [un EXCEPT !.childname = "rfc6020Lookup", !.err = ErrUnsupportedValue]

\* Unmarshaler.tdInit(args...) of an Unmarshaler with the given
\* InitializeArgs
tdInit(un, InitializeArgs, args) ==
    IF Len(InitializeArgs) > 0 /\ Len(InitializeArgs) % 2 = 0
    THEN Decoder_Initialize(un, InitializeArgs)
    ELSE Decoder_Initialize(un, args)

MaxInits == 2

InitializeKeys ==
    {<<"n", "a", "m", "e", ".", "r", "e", "s", "o", "l", "v", "e", "r">>,
     <<"m", "e", "d", "i", "a", "t", "y", "p", "e">>,
     <<"f", "o", "r", "m", "a", "t">>,
     <<"F", "o", "r", "m", "a", "t">>,
     <<"r", "e", "s", "o", "l", "v", "e", "r">>,
     <<>>}

InitializeValues ==
    {<<"r", "f", "c", "7", "9", "5", "1">>,
     <<"a", "p", "p", "l", "i", "c", "a", "t", "i", "o", "n", "/", "y",
       "a", "n", "g", "-", "d", "a", "t", "a", "+", "j", "s", "o", "n">>,
     <<"j", "s", "o", "n">>,
     <<"d", "e", "f", "a", "u", "l", "t">>,
     <<"r", "f", "c", "6", "0", "2", "0">>,
     <<"a", "p", "p", "l", "i", "c", "a", "t", "i", "o", "n", "/",
       "y", "a", "n", "g", "-", "d", "a", "t", "a", "+", "x", "m", "l">>,
     <<"x", "m", "l">>,
     <<"R", "F", "C", "7", "9", "5", "1">>,
     <<"A", "p", "p", "l", "i", "c", "a", "t", "i", "o", "n", "/", "Y",
       "A", "N", "G", "-", "D", "a", "t", "a", "+", "J", "S", "O", "N">>,
     <<"J", "s", "o", "n">>,
     <<"D", "E", "F", "A", "U", "L", "T">>,
     <<"R", "f", "c", "6", "0", "2", "0">>,
     <<"a", "p", "p", "l", "i", "c", "a", "t", "i", "o", "n", "/",
       "y", "a", "n", "g", "-", "d", "a", "t", "a", "+", "X", "M", "L">>,
     <<"X", "M", "L">>,
     <<>>,
     <<"y", "a", "m", "l">>,
     <<"j", "s", "o", "n", "x">>,
     <<"r", "f", "c", "7", "9", "5">>,
     <<"n", "a", "m", "e", ".", "r", "e", "s", "o", "l", "v", "e", "r">>,
     <<"x", "m">>}

\* argument lists: none, one string, one pair, or two pairs the second of
\* which has a recognised key
InitializeLists ==
    {<<>>}
    \cup {<<v>> : v \in InitializeValues}
    \cup {<<k, v>> : k \in InitializeKeys, v \in InitializeValues}
    \cup {<<k, v, k2, v2>> : k \in {str_format, <<>>}, v \in {str_json, str_xml},
                             k2 \in {str_mediatype, <<>>}, v2 \in {str_rfc6020, str_rfc7951, <<>>}}
    \cup {<<k, v, v2>> : k \in {str_format}, v \in {str_json}, v2 \in {str_xml}}

\* &Decoder{Node: dom.NewDocument(nil), Modules: c}
InitInitialize ==
    /\ heap = newDocument(St(<<>>)).h
    /\ cursor = 1
    /\ iter = NoIt
    /\ mgr = NoMgr
    /\ dec = [schema |-> Nil, stack |-> <<>>, skip |-> FALSE, errors |-> <<>>,
              childname |-> "nil"]
    /\ call = NoCall
    /\ err = ErrNil
    /\ opts = {}
    /\ output = NoOutput
    /\ jd = NoJD
    /\ nops = 0

\* operation op ran Initialize, which left the Decoder as r; own is the
\* Unmarshaler's InitializeArgs and kv what the caller passed
Configured(op, own, kv, r) ==
    /\ nops < MaxInits
    /\ nops' = nops + 1
    /\ dec' = [f \in DOMAIN dec |-> r[f]]
    /\ err' = r.err
    /\ call' = [op |-> op, n |-> cursor, child |-> Nil, ref |-> Nil,
                arg |-> NoToken, InitializeArgs |-> own, kv |-> kv]
    /\ UNCHANGED <<heap, cursor, opts, output, jd, iter, mgr>>

\* td.Initialize(kv...)
DecInitialize(kv) == Configured("Initialize", <<>>, kv, Decoder_Initialize(Un, kv))

\* the first step of readerXML.ReadFrom
XMLReadFrom(own) == Configured("XMLReader.ReadFrom", own, <<>>, tdInit(Un, own, <<>>))

\* the first step of readerJSON.ReadFrom
JSONReadFrom(own) ==
    Configured("JSONReader.ReadFrom", own, <<str_name_resolver, str_rfc7951>>,
               tdInit(Un, own, <<str_name_resolver, str_rfc7951>>))

NextInitialize ==
    \/ \E kv \in InitializeLists : DecInitialize(kv)
    \/ \E own \in InitializeLists : XMLReadFrom(own)
    \/ \E own \in InitializeLists : JSONReadFrom(own)

SpecInitialize == InitInitialize /\ [][NextInitialize]_vars

-----------------------------------------------------------------------------
(* Character data of a Text node (text.DeleteData, text.ReplaceData) *)

ErrIndexSize == "index size error"

\* t.value[lo:hi] of a Go slice, 0-based and half-open
slice(v, lo, hi) == SubSeq(v, lo + 1, hi)

\* The methods return [value |-> t.value afterwards, err]; slicing with a
\* negative index panics before anything is assigned.
text_DeleteData(v, offset, count) ==
    IF count < 0 \/ offset + count > Len(v) THEN [value |-> v, err |-> ErrIndexSize]
    ELSE IF offset < 0 THEN [value |-> v, err |-> Panic]
    ELSE [value |-> slice(v, 0, offset) \o slice(v, offset + count, Len(v)),
          err |-> ErrNil]

text_ReplaceData(v, offset, count, arg) ==
    IF count < 0 \/ offset + count > Len(v) \/ Len(arg) < count
    THEN [value |-> v, err |-> ErrIndexSize]
    ELSE IF offset < 0 THEN [value |-> v, err |-> Panic]
    ELSE [value |-> slice(v, 0, offset) \o slice(arg, 0, count)
                        \o slice(v, offset + count, Len(v)),
          err |-> ErrNil]

MaxText == 3
MaxTextOps == 2

TextData == UNION {[1..k -> {"a", "b"}] : k \in 0..MaxText}
TextArgs == {[i \in 1..k |-> "x"] : k \in 0..MaxText}
TextOffsets == -1..(MaxText + 1)

\* CreateText(cd)
InitText ==
    /\ \E cd \in TextData : heap = newText(St(<<>>), cd).h
    /\ cursor = 1
    /\ call = NoCall
    /\ err = ErrNil
    /\ opts = {}
    /\ output = NoOutput
    /\ jd = NoJD
    /\ dec = NoDec
    /\ iter = NoIt
    /\ mgr = NoMgr
    /\ nops = 0

\* method op of the Text node was called with offset, count and arg and
\* returned r
TextCall(op, offset, count, arg, r) ==
    /\ err = ErrNil
    /\ nops < MaxTextOps
    /\ nops' = nops + 1
    /\ heap' = [heap EXCEPT ![cursor].value.data = r.value]
    /\ err' = r.err
    /\ call' = [op |-> op, n |-> cursor, child |-> Nil, ref |-> Nil,
                arg |-> CharDataTok(arg), offset |-> offset, count |-> count]
    /\ UNCHANGED <<cursor, opts, output, jd, dec, iter, mgr>>

DeleteData(offset, count) ==
    TextCall("DeleteData", offset, count, <<>>,
             text_DeleteData(heap[cursor].value.data, offset, count))

ReplaceData(offset, count, arg) ==
    TextCall("ReplaceData", offset, count, arg,
             text_ReplaceData(heap[cursor].value.data, offset, count, arg))

NextText ==
    \/ \E offset, count \in TextOffsets : DeleteData(offset, count)
    \/ \E offset, count \in TextOffsets, arg \in TextArgs : ReplaceData(offset, count, arg)

SpecText == InitText /\ [][NextText]_vars

-----------------------------------------------------------------------------
(* The node store when every inserted child is freshly created: a node     *)
(* that has never been linked, inserted under another node.                *)

FreshNode(h, c) ==
    h[c].parent = Nil /\ h[c].prevSib = Nil /\ h[c].nextSib = Nil

NextFresh ==
    \/ NewDocument
    \/ \E se \in StoreStartElements : CreateElement(se)
    \/ CreateText(<<>>)
    \/ CreateComment(<<>>)
    \/ \E pi \in StoreProcInsts : CreateProcessingInstruction(pi)
    \/ \E n, child \in NodeIds :
            FreshNode(heap, child) /\ n # child /\ AppendChild(n, child)
    \/ \E n, child \in NodeIds :
            FreshNode(heap, child) /\ n # child /\ PrependChild(n, child)
    \/ \E n, child \in NodeIds, after \in NodeIds \cup {Nil} :
            FreshNode(heap, child) /\ n # child /\ InsertChildAfter(n, child, after)
    \/ \E n, child \in NodeIds, before \in NodeIds \cup {Nil} :
            FreshNode(heap, child) /\ n # child /\ InsertChildBefore(n, child, before)

SpecFresh == Init /\ [][NextFresh]_vars

-----------------------------------------------------------------------------
(* Reading the lists *)

\* the nodes met following nextSib from it, at most fuel of them
RECURSIVE walkNext(_, _, _)
walkNext(h, it, fuel) ==
    IF it = Nil \/ fuel = 0 THEN <<>>
    ELSE <<it>> \o walkNext(h, h[it].nextSib, fuel - 1)

\* following nextSib from p.firstChild; longer than Len(h) means it never ends
ChildWalk(h, p) == walkNext(h, h[p].firstChild, Len(h) + 1)
AttrWalk(h, p) == walkNext(h, h[p].firstAttr, Len(h) + 1)

Range(f) == {f[i] : i \in DOMAIN f}

\* following prevSib k times from it
RECURSIVE prevTimes(_, _, _)
prevTimes(h, it, k) ==
    IF k = 0 \/ it = Nil THEN it ELSE prevTimes(h, h[it].prevSib, k - 1)

\* the sibling-list invariant of p's child list
SiblingListOK(h, p) ==
    LET l == ChildWalk(h, p)
    IN  /\ Len(l) <= Len(h)
        /\ \A i, j \in DOMAIN l : i # j => l[i] # l[j]
        /\ \A i \in DOMAIN l : h[l[i]].parent = p
        /\ l # <<>> => h[l[1]].prevSib = l[Len(l)]
        /\ \A i \in DOMAIN l : prevTimes(h, l[i], i - 1) = l[1]

\* walking parent from n reaches a node without parent
RECURSIVE reachesRoot(_, _, _)
reachesRoot(h, n, fuel) ==
    IF h[n].parent = Nil THEN TRUE
    ELSE IF fuel = 0 THEN FALSE
    ELSE reachesRoot(h, h[n].parent, fuel - 1)

\* the Document whose tree n belongs to
DocOf(h, n) ==
    IF NodeType(h, n) = NodeTypeDocument THEN n ELSE OwnerDocument(h, n)

ChildOps == {"AppendChild", "PrependChild", "InsertChildAfter", "InsertChildBefore"}

\* the spec's structural validity rule (section 4.1), read as a rejection rule
Incompatible(parentKind, childKind) ==
    \/ parentKind = NodeTypeNull \/ childKind = NodeTypeNull
    \/ parentKind \notin {NodeTypeDocument, NodeTypeElement}
    \/ childKind = NodeTypeDocument
    \/ /\ childKind \in {NodeTypeDocumentType, NodeTypeDeclaration}
       /\ parentKind # NodeTypeDocument

-----------------------------------------------------------------------------
(* Claims *)

\* C1: starting from never-linked nodes, after any sequence of successful
\* child insertions every child list satisfies the sibling-list invariant:
\* nextSib from firstChild visits each child once and ends at a node without
\* nextSib, the head's prevSib is that tail, and k prevSib steps from the
\* child at position k reach firstChild.
C1_SiblingListInvariant ==
    err # Panic => \A p \in NodeIds : SiblingListOK(heap, p)

\* C2: a child insertion whose parent kind and child kind are incompatible
\* fails with HierarchyError and changes no link of any node.
C2_IncompatibleKindsRejected ==
    [][(/\ call'.op \in ChildOps
        /\ Incompatible(NodeType(heap, call'.n), NodeType(heap, call'.child)))
       => (err' = ErrHierarchyRequest /\ heap' = heap)]_vars

C2_Witness ==
    /\ call.op = "AppendChild"
    /\ NodeType(heap, call.n) = NodeTypeText
    /\ NodeType(heap, call.child) = NodeTypeElement
    /\ err = ErrHierarchyRequest

\* C3: InsertChildAfter / InsertChildBefore on n with a non-nil reference
\* whose parent is not n fails with HierarchyError and changes nothing.
C3_ForeignRefRejected ==
    [][(/\ call'.op \in {"InsertChildAfter", "InsertChildBefore"}
        /\ call'.ref # Nil
        /\ heap[call'.ref].parent # call'.n)
       => (err' = ErrHierarchyRequest /\ heap' = heap)]_vars

\* the kinds are compatible and the reference is some other node's child
C3_Witness ==
    /\ call.op \in {"InsertChildAfter", "InsertChildBefore"}
    /\ call.ref # Nil
    /\ heap[call.ref].parent \notin {Nil, call.n}
    /\ call.ref \in Range(ChildWalk(heap, heap[call.ref].parent))
    /\ ~Incompatible(NodeType(heap, call.n), NodeType(heap, call.child))
    /\ err = ErrHierarchyRequest

\* C4: insertion into itself or a descendant is rejected, so the parent
\* links never form a cycle.
C4_ParentLinksAcyclic ==
    \A n \in NodeIds : reachesRoot(heap, n, Len(heap))

\* C5: inserting a node that is already a child of P1 under a valid parent
\* P2 unlinks it first: afterwards it occurs exactly once in P2's list, not
\* in P1's (when P1 is another node), and both lists satisfy the invariant.
C5_MoveUnlinksFirst ==
    [][(/\ call'.op \in ChildOps
        /\ err' = ErrNil
        /\ \A p \in NodeIds : SiblingListOK(heap, p)
        /\ \A x \in NodeIds : reachesRoot(heap, x, Len(heap))
        /\ ~ancestorOrSelf(heap, call'.n, call'.child, Len(heap) + 1)
        /\ heap[call'.child].parent # Nil
        /\ call'.child \in Range(ChildWalk(heap, heap[call'.child].parent)))
       => LET c == call'.child
              p1 == heap[c].parent
              p2 == call'.n
          IN  /\ SiblingListOK(heap', p1)
              /\ SiblingListOK(heap', p2)
              /\ Cardinality({i \in DOMAIN ChildWalk(heap', p2) :
                                ChildWalk(heap', p2)[i] = c}) = 1
              /\ p1 # p2 => c \notin Range(ChildWalk(heap', p1))]_vars

\* C6: inserting a node of one Document's tree under a parent of another
\* Document's tree is rejected and changes nothing.
C6_CrossDocumentRejected ==
    [][(/\ call'.op \in ChildOps
        /\ DocOf(heap, call'.n) # Nil
        /\ DocOf(heap, call'.child) # Nil
        /\ DocOf(heap, call'.n) # DocOf(heap, call'.child))
       => (err' # ErrNil /\ heap' = heap)]_vars

\* C7: no Attribute node is in a child list and no other node is in an
\* attribute list.
C7_AttributesOnlyInAttrLists ==
    \A p \in NodeIds :
        /\ \A c \in Range(ChildWalk(heap, p)) : NodeType(heap, c) # NodeTypeAttribute
        /\ \A a \in Range(AttrWalk(heap, p)) : NodeType(heap, a) = NodeTypeAttribute

\* C8: a DocumentFragment is in no child list and its parent pointer
\* denotes its host Element.
C8_FragmentNeverLinked ==
    \A f \in NodeIds :
        NodeType(heap, f) = NodeTypeDocumentFragment =>
            /\ \A p \in NodeIds : f \notin Range(ChildWalk(heap, p))
            /\ NodeType(heap, heap[f].parent) = NodeTypeElement

\* the enter and exit events of n, its descendants and its following
\* siblings in depth-first document order: every kind but Document and
\* DocumentFragment enters, only an Element exits
RECURSIVE documentOrder(_, _, _)
documentOrder(h, n, fuel) ==
    IF n = Nil \/ fuel = 0 THEN <<>>
    ELSE (IF NodeType(h, n) \in {NodeTypeDocument, NodeTypeDocumentFragment}
          THEN <<>> ELSE <<[ev |-> "enter", n |-> n]>>)
         \o documentOrder(h, h[n].firstChild, fuel - 1)
         \o (IF NodeType(h, n) = NodeTypeElement
             THEN <<[ev |-> "exit", n |-> n]>> ELSE <<>>)
         \o documentOrder(h, h[n].nextSib, fuel - 1)

\* the depth-first walk of the tree under root alone
documentOrderOf(h, root) ==
    documentOrder([h EXCEPT ![root].nextSib = Nil], root, Len(h) + 1)

\* the thunks of a marshaler run that encoded a token, as enter/exit events
RECURSIVE emitted(_)
emitted(out) ==
    IF out = <<>> THEN <<>>
    ELSE (IF Head(out).toks = <<>> THEN <<>>
          ELSE <<[ev |-> IF Head(out).thunk.fn = "encodeNodeValueStart"
                         THEN "enter" ELSE "exit",
                  n |-> Head(out).thunk.n]>>)
         \o emitted(Tail(out))

\* decoding ts under a new Document with the Builder flags o, then
\* marshaling the Document with the Marshaler flags mo
remarshal(o, mo, ts) ==
    LET b == UnmarshalXML([h |-> newDocument(St(<<>>)).h, cur |-> 1], o, ts, 1)
        r == treeOrder(b.h, [opts |-> mo, emitExplicitNS |-> FALSE], 1)
    IN  [decodeErr |-> b.err, err |-> r.err, toks |-> Tokens(r.out)]

\* C9: whenever the Builder accepted a token stream and the tree it built
\* has been marshaled, decoding the marshaled tokens into a second tree
\* (same Builder flags) and marshaling that tree (same Marshaler flags)
\* succeeds and gives exactly the tokens of the first marshal.
C9_MarshalUnmarshalFixedPoint ==
    (call.op = "MarshalXML" /\ output.err = ErrNil) =>
        LET again == remarshal(opts, output.opts, Tokens(output.out))
        IN  /\ again.decodeErr = ErrNil
            /\ again.err = ErrNil
            /\ again.toks = Tokens(output.out)

\* a marshaled Document holding an Element with a namespace, trimmed text
\* and a second child, re-marshaled to the same tokens
C9_Witness ==
    /\ call.op = "MarshalXML" /\ output.err = ErrNil
    /\ NodeType(heap, call.n) = NodeTypeDocument
    /\ parseTrimPCData \in opts
    /\ LET ts == Tokens(output.out)
       IN  /\ Len(ts) >= 4
           /\ \E i \in DOMAIN ts : ts[i].type = "StartElement" /\ ts[i].Name.Space = "x"
           /\ \E i \in DOMAIN ts : ts[i].type = "CharData" /\ ts[i].Data = <<"t">>
           /\ remarshal(opts, output.opts, ts).toks = ts

\* C10: marshaling a tree whose child lists all satisfy the sibling-list
\* invariant succeeds, every thunk encodes at most one token, and the
\* tokens come in depth-first document order: a node's enter token, then
\* its children in nextSib order with their descendants, then the exit
\* token if the node is an Element; Document and DocumentFragment encode
\* nothing.
C10_DepthFirstDocumentOrder ==
    (call.op = "MarshalXML" /\ \A p \in NodeIds : SiblingListOK(heap, p)) =>
        /\ output.err = ErrNil
        /\ \A i \in DOMAIN output.out : Len(output.out[i].toks) <= 1
        /\ emitted(output.out) = documentOrderOf(heap, call.n)

\* a marshaled root with two children, the first an Element with a child
C10_Witness ==
    /\ call.op = "MarshalXML" /\ output.err = ErrNil
    /\ \A p \in NodeIds : SiblingListOK(heap, p)
    /\ LET l == ChildWalk(heap, call.n)
       IN  /\ Len(l) >= 2
           /\ NodeType(heap, l[1]) = NodeTypeElement
           /\ heap[l[1]].firstChild # Nil
    /\ emitted(output.out) = documentOrderOf(heap, call.n)

-----------------------------------------------------------------------------
(* Builder events *)

\* sequences of "S" (StartElement) and "E" (EndElement) in which every S
\* is closed by a later E
BalancedSeqs ==
    {<<"S", "E">>, <<"S", "E", "S", "E">>, <<"S", "S", "E", "E">>,
     <<"S", "S", "E", "S", "E", "E">>}

\* the Builder b after the events seq[i..], stopped by the first error
RECURSIVE runEvents(_, _, _)
runEvents(b, seq, i) ==
    IF i > Len(seq) THEN BRet(b.h, b.cur, ErrNil)
    ELSE LET r == IF seq[i] = "S"
                  THEN Builder_StartElement(b, [Name |-> [Space |-> "", Local |-> "a"],
                                                Attr |-> <<>>])
                  ELSE Builder_EndElement(b)
         IN  IF r.err # ErrNil THEN r
             ELSE runEvents([h |-> r.h, cur |-> r.cur], seq, i + 1)

\* the step appended the old cursor as the last child of its pending
\* parent and moved the cursor there
Ascended ==
    LET p == heap[cursor].parent
    IN  /\ err' = ErrNil
        /\ ChildWalk(heap', p) = ChildWalk(heap, p) \o <<cursor>>
        /\ heap'[cursor].parent = p
        /\ cursor' = p

\* the step returned HierarchyError and changed neither tree nor cursor
RejectedUnchanged ==
    err' = ErrHierarchyRequest /\ heap' = heap /\ cursor' = cursor

\* C11 as stated: EndElement returns HierarchyError and changes nothing when
\* the cursor has no pending parent, otherwise it appends the cursor node
\* as the last child of that parent and the cursor becomes the parent; and
\* from every state of a decoding, every balanced sequence of
\* StartElement/EndElement events ends with the cursor where it started.
C11_EndElementAscends ==
    /\ [][call'.op = "EndElement" =>
              IF heap[cursor].parent = Nil THEN RejectedUnchanged ELSE Ascended]_vars
    /\ []((Decoding /\ err = ErrNil) =>
              \A seq \in BalancedSeqs :
                  LET r == runEvents([h |-> heap, cur |-> cursor], seq, 1)
                  IN  r.err = ErrNil /\ r.cur = cursor)

\* C11 amended: EndElement returns HierarchyError and changes nothing when
\* the cursor has no pending parent or the pending parent is of a kind
\* that may not hold the cursor node as a child; otherwise it appends the
\* cursor node as the last child of that parent and the cursor becomes the
\* parent.  A balanced sequence of StartElement/EndElement events either
\* stops at an EndElement with HierarchyError or ends with the cursor where
\* it started, and it never stops when the cursor is a Document or an
\* Element.
C11_EndElementAscendsWhereAllowed ==
    /\ [][call'.op = "EndElement" =>
              IF \/ heap[cursor].parent = Nil
                 \/ ~allowInsertChild(NodeType(heap, heap[cursor].parent),
                                      NodeType(heap, cursor))
              THEN RejectedUnchanged ELSE Ascended]_vars
    /\ []((Decoding /\ err = ErrNil) =>
              \A seq \in BalancedSeqs :
                  LET r == runEvents([h |-> heap, cur |-> cursor], seq, 1)
                  IN  /\ r.err \in {ErrNil, ErrHierarchyRequest}
                      /\ r.err = ErrNil => r.cur = cursor
                      /\ NodeType(heap, cursor) \in {NodeTypeDocument, NodeTypeElement}
                             => r.err = ErrNil)

\* an EndElement closed a nested Element whose parent already had a child
C11_Witness ==
    /\ call.op = "EndElement" /\ err = ErrNil
    /\ NodeType(heap, cursor) = NodeTypeElement
    /\ Len(ChildWalk(heap, cursor)) >= 2
    /\ heap[cursor].parent # Nil

\* the Builder flag that keeps a ProcInst with the given target
procInstFlag(target) == IF target = "xml" THEN parseDeclaration ELSE parsePI

\* C12: with the cursor on a Document or an Element, a Comment event with
\* parseComments off, and a ProcInst event whose flag (parseDeclaration for
\* target "xml", parsePI otherwise) is off, returns no error and leaves the
\* tree and the cursor unchanged.
C12_DisabledEventsDiscarded ==
    [][(/\ NodeType(heap, cursor) \in {NodeTypeDocument, NodeTypeElement}
        /\ \/ call'.op = "Comment" /\ ~Has(opts, parseComments)
           \/ call'.op = "ProcInst" /\ ~Has(opts, procInstFlag(call'.arg.Target)))
       => (err' = ErrNil /\ heap' = heap /\ cursor' = cursor)]_vars

\* the configuration table of CharData: the text kept for data cd under
\* flags o, or "drop"
keptText(o, cd) ==
    LET keepWS == Has(o, parseWSPCData)
        stripped == TrimSpace(cd)
    IN  IF cd = <<>> THEN (IF keepWS THEN [keep |-> TRUE, data |-> <<>>]
                           ELSE [keep |-> FALSE, data |-> <<>>])
        ELSE IF Has(o, parseTrimPCData)
             THEN (IF stripped = <<>> /\ ~keepWS THEN [keep |-> FALSE, data |-> <<>>]
                   ELSE [keep |-> TRUE, data |-> stripped])
        ELSE [keep |-> TRUE, data |-> cd]

\* the step followed the table for the data of the event it handled
FollowedTable ==
    LET k == keptText(opts, call'.arg.Data)
        n == Len(heap) + 1
    IN  /\ err' = ErrNil
        /\ cursor' = cursor
        /\ IF k.keep
           THEN /\ Len(heap') = n
                /\ NodeType(heap', n) = NodeTypeText
                /\ heap'[n].value.data = k.data
                /\ ChildWalk(heap', cursor) = ChildWalk(heap, cursor) \o <<n>>
           ELSE heap' = heap

\* C13 as stated: every CharData event follows the configuration table:
\* empty data is dropped unless parseWSPCData is on; with parseTrimPCData
\* the data is stripped and dropped if that leaves it empty unless
\* parseWSPCData is on; otherwise it is kept verbatim; kept text is exactly
\* one new Text node, the cursor's last child; the cursor never changes.
C13_CharDataTable ==
    [][call'.op = "CharData" => FollowedTable]_vars

\* C13 amended: the table is followed when the cursor is a Document or an
\* Element; on any other cursor CharData returns HierarchyError and changes
\* neither tree nor cursor.
C13_CharDataTableWhereAllowed ==
    [][call'.op = "CharData" =>
           IF NodeType(heap, cursor) \in {NodeTypeDocument, NodeTypeElement}
           THEN FollowedTable ELSE RejectedUnchanged]_vars

\* data with whitespace on both sides was trimmed and kept after a sibling
C13_Witness ==
    /\ call.op = "CharData" /\ err = ErrNil
    /\ call.arg.Data = <<" ", "t", " ">>
    /\ Has(opts, parseTrimPCData)
    /\ LET l == ChildWalk(heap, cursor)
       IN  /\ Len(l) >= 2
           /\ NodeType(heap, l[Len(l)]) = NodeTypeText
           /\ heap[l[Len(l)]].value.data = <<"t">>

-----------------------------------------------------------------------------
(* JSON bridge *)

\* the tokens at i.. of toks nest properly inside the open elements named
\* by open (innermost last) and close every one of them
RECURSIVE nested(_, _, _)
nested(toks, i, open) ==
    IF i > Len(toks) THEN open = <<>>
    ELSE CASE toks[i].type = "StartElement" ->
                nested(toks, i + 1, Append(open, toks[i].Name))
           [] toks[i].type = "EndElement" ->
                /\ open # <<>>
                /\ open[Len(open)] = toks[i].Name
                /\ nested(toks, i + 1, SubSeq(open, 1, Len(open) - 1))
           [] OTHER -> nested(toks, i + 1, open)

ofType(toks, type) == {i \in 1..Len(toks) : toks[i].type = type}

\* Run has returned for a whole, well-formed document and reported no error
Accepted == jd.state = "done" /\ jd.fail = NoFail /\ err = ErrNil

\* C14: for every well-formed document the bridge accepts without error
\* (top-level object or array, any nesting, any key including the empty
\* key) the emitted stream is balanced: every StartElement is closed by an
\* EndElement of the same name, properly nested, and when Run returns the
\* numbers of StartElement and EndElement events are equal.
C14_BalancedStream ==
    Accepted =>
        /\ nested(jd.emitted, 1, <<>>)
        /\ Cardinality(ofType(jd.emitted, "StartElement"))
             = Cardinality(ofType(jd.emitted, "EndElement"))

\* the element named by key k holding the text of scalar j
scalarElement(k, j) ==
    <<StartElementTok(jsTagToName(k), <<>>), CharDataTok(scalarText(j)),
      EndElementTok(jsTagToName(k))>>

\* the tokens the mapping rules give the members i.. of an object, and the
\* elements i.. of an array under key k
RECURSIVE membersShape(_, _)
RECURSIVE elementsShape(_, _, _)
membersShape(m, i) ==
    IF i > Len(m) THEN <<>>
    ELSE LET k == m[i].k
             v == m[i].v
         IN  (CASE v.t = "object" ->
                     <<StartElementTok(jsTagToName(k), <<>>)>> \o membersShape(v.m, 1)
                         \o <<EndElementTok(jsTagToName(k))>>
                [] v.t = "array" -> elementsShape(k, v.e, 1)
                [] OTHER -> scalarElement(k, v))
             \o membersShape(m, i + 1)

elementsShape(k, e, i) ==
    IF i > Len(e) THEN <<>>
    ELSE (IF e[i].t = "object"
          THEN <<StartElementTok(jsTagToName(k), <<>>)>> \o membersShape(e[i].m, 1)
                   \o <<EndElementTok(jsTagToName(k))>>
          ELSE scalarElement(k, e[i]))
         \o elementsShape(k, e, i + 1)

\* no array of j is an element of an array
RECURSIVE NoNestedArrays(_)
NoNestedArrays(j) ==
    CASE j.t = "object" -> \A i \in 1..Len(j.m) : NoNestedArrays(j.m[i].v)
      [] j.t = "array" -> \A i \in 1..Len(j.e) :
                              j.e[i].t # "array" /\ NoNestedArrays(j.e[i])
      [] OTHER -> TRUE

\* C15: an array under key K emits one K element per array element, in
\* array order (a scalar as StartElement(K), CharData, EndElement(K), an
\* object as StartElement(K) .. EndElement(K) around its members), and
\* decoding then resumes with the remaining members of the enclosing
\* object; an empty array emits nothing and an empty object under K emits
\* exactly StartElement(K), EndElement(K).
C15_ArrayRepeatsKey ==
    (Accepted /\ jd.doc.t = "object" /\ NoNestedArrays(jd.doc)) =>
        jd.emitted = membersShape(jd.doc.m, 1)

\* {"a:b": 1, "a:": 2} was read whole into a Builder rooted at a Document
PrefixBadRead ==
    /\ jd.state = "done" /\ jd.doc = PrefixBad /\ jd.fail = NoFail
    /\ NodeType(heap, 1) = NodeTypeDocument

\* the element named nm holding one Text node with data txt
ElementWithText(n, nm, txt) ==
    /\ NodeType(heap, n) = NodeTypeElement
    /\ heap[n].value.name = nm
    /\ LET l == ChildWalk(heap, n)
       IN  /\ Len(l) = 1
           /\ NodeType(heap, l[1]) = NodeTypeText
           /\ heap[l[1]].value.data = txt

\* <b xmlns="a">1</b> is the first child of the Document
SiblingCommitted ==
    LET l == ChildWalk(heap, 1)
    IN  /\ Len(l) >= 1
        /\ ElementWithText(l[1], [Space |-> "a", Local |-> "b"], <<"1">>)

\* C16 as stated: decoding {"a:b": 1, "a:": 2} yields a decode error,
\* raised after <b xmlns="a">1</b> was committed, which stays in the tree.
C16_TrailingColonDecodeError ==
    (PrefixBadRead /\ call.op = "End") => (err # ErrNil /\ SiblingCommitted)

\* C16 amended: decoding {"a:b": 1, "a:": 2} into a Document yields no
\* decode error: <b xmlns="a">1</b> and after it an element of namespace a
\* with an empty local name are committed.  The error is raised when the
\* tree is marshaled, after the tokens of <b xmlns="a">1</b> were encoded,
\* and the committed sibling remains in the tree.
C16_TrailingColonMarshalError ==
    PrefixBadRead =>
        /\ SiblingCommitted
        /\ LET l == ChildWalk(heap, 1)
           IN  /\ Len(l) = 2
               /\ ElementWithText(l[2], [Space |-> "a", Local |-> ""], <<"2">>)
        /\ call.op = "End" => err = ErrNil
        /\ call.op = "MarshalXML" =>
               /\ err # ErrNil
               /\ Tokens(output.out)
                    = <<StartElementTok([Space |-> "a", Local |-> "b"], <<>>),
                        CharDataTok(<<"1">>),
                        EndElementTok([Space |-> "a", Local |-> "b"])>>

\* the tree read from {"a:b": 1, "a:": 2} was marshaled and refused
C16_Witness ==
    PrefixBadRead /\ call.op = "MarshalXML" /\ err # ErrNil /\ SiblingCommitted

\* C17: an error returned by the token source (reading a key, a member's
\* value, an array element or a closing delimiter) or by the token consumer
\* halts the bridge at once: no token is emitted after it, and Run and
\* ReadFrom return a non-nil error.
C17_ErrorsAreFatal ==
    /\ ~jd.late
    /\ (jd.state = "done" /\ call.op = "End" /\ jd.failed) => err # ErrNil

-----------------------------------------------------------------------------
(* Schema-guided decoder *)

\* name nm fails name resolution, schema lookup or the namespace check
FailsResolution(un, nm) ==
    LET r == childname(un, nm)
    IN  r.err # ErrNil \/ Decoder_dataChild(un, r.name).err # ErrNil

\* the nodes of the document tree, in document order
Tree(h) == documentOrderOf(h, 1)

\* a failed StartElement returned nil, recorded one error and made no node
FailureRecorded ==
    (call'.op = "StartElement" /\ FailsResolution(Un, call'.arg.Name)) =>
        /\ err' = ErrNil
        /\ Len(dec'.errors) = Len(dec.errors) + 1
        /\ Len(heap') = Len(heap)
        /\ Tree(heap') = Tree(heap)
        /\ heap' = heap

\* after the EndElement of a failed element the cursors are those of its
\* frame f, and every valid sibling resolves and attaches as it would have
\* there
SiblingsResume ==
    (call'.op = "EndElement" /\ dec.stack # <<>> /\ dec.stack[Len(dec.stack)].unskip) =>
        LET f == dec.stack[Len(dec.stack)]
            after == UnOf(heap', cursor', dec')
        IN  /\ dec'.schema = f.schema
            /\ cursor' = f.node
            /\ \A nm \in DecoderNames :
                   ~FailsResolution(after, nm) =>
                       LET r == Decoder_StartElement(after, [Name |-> nm, Attr |-> <<>>])
                           l == ChildWalk(r.h, f.node)
                       IN  /\ r.err = ErrNil
                           /\ r.cur = Len(r.h) /\ Len(r.h) = Len(heap') + 1
                           /\ r.h[r.cur].parent = f.node
                           /\ l = ChildWalk(heap', f.node) \o <<r.cur>>
                           /\ r.schema
                                = Decoder_dataChild([after EXCEPT !.schema = f.schema],
                                                    childname(after, nm).name).candidate

\* C18: a StartElement that fails name resolution, schema lookup or the
\* namespace check returns no error, appends exactly one error, creates no
\* node and leaves every node made before in the tree; after the matching
\* EndElement later valid siblings are resolved against the same schema
\* entry and attached to the same parent as before.
C18_FailedStartElementIsRecoverable ==
    [][FailureRecorded /\ SiblingsResume]_vars

\* host-name was attached under system after a failed sibling was closed
C18_Witness ==
    /\ call.op = "StartElement" /\ err = ErrNil
    /\ Len(dec.errors) = 1
    /\ dec.stack # <<>>
    /\ LET p == dec.stack[Len(dec.stack)].node
           l == ChildWalk(heap, p)
       IN  /\ NodeType(heap, p) = NodeTypeElement
           /\ Len(l) = 2
           /\ l[2] = cursor
           /\ heap[cursor].value.name.Local = "host-name"

\* a StartElement failed and its EndElement has not come yet
Skipping == \E i \in 1..Len(dec.stack) : dec.stack[i].unskip

\* C19: between the StartElement of an element that failed validation and
\* its matching EndElement no Element or Text node is added to the tree,
\* whatever properly nested events occur inside.
C19_SkippedSubtreeAddsNothing ==
    [][Skipping => Tree(heap') = Tree(heap)]_vars

\* C20: every EndElement restores the schema cursor, the node cursor and
\* the skip flag to the values they had immediately before the matching
\* StartElement, also for elements nested inside a skipped element.
C20_EndElementRestores ==
    [][(call'.op = "EndElement" /\ dec.stack # <<>>) =>
           LET f == dec.stack[Len(dec.stack)]
           IN  /\ dec'.schema = f.schema
               /\ cursor' = f.node
               /\ dec'.skip = f.skip0]_vars

\* C21: given end-of-stream, Decoder.End returns success if and only if
\* every StartElement received so far has been followed by its matching
\* EndElement, and unexpected-EOF otherwise; any other error passed to End
\* is returned unchanged.
C21_EndSucceedsIffBalanced ==
    call.op = "End" =>
        IF call.arg.Target = ErrEOF
        THEN err = (IF dec.stack = <<>> THEN ErrNil ELSE ErrUnexpectedEOF)
        ELSE err = call.arg.Target

-----------------------------------------------------------------------------
(* Character data *)

Data == heap[cursor].value.data

\* C25: DeleteData(offset, count) returns IndexSizeError and leaves the
\* data unchanged whenever offset or count is out of bounds (negative, or
\* offset + count greater than the length); otherwise it removes exactly
\* the count units at offset, leaving data[0..offset) followed by
\* data[offset+count..).
C25_DeleteData ==
    [][call'.op = "DeleteData" =>
           LET offset == call'.offset
               count == call'.count
               v == Data
           IN  IF offset < 0 \/ count < 0 \/ offset + count > Len(v)
               THEN err' = ErrIndexSize /\ Data' = v
               ELSE /\ err' = ErrNil
                    /\ Data' = SubSeq(v, 1, offset) \o SubSeq(v, offset + count + 1, Len(v))]_vars

\* C26: ReplaceData(offset, count, s) fails with IndexSizeError, leaving
\* the data unchanged, if offset + count exceeds the length or s is shorter
\* than count; otherwise it overwrites exactly the count units at
\* [offset, offset+count), and every unit outside that range, and the
\* length, is unchanged.
C26_ReplaceData ==
    [][call'.op = "ReplaceData" =>
           LET offset == call'.offset
               count == call'.count
               arg == call'.arg.Data
               v == Data
           IN  IF offset + count > Len(v) \/ Len(arg) < count
               THEN err' = ErrIndexSize /\ Data' = v
               ELSE /\ err' = ErrNil
                    /\ Len(Data') = Len(v)
                    /\ \A i \in 1..Len(v) :
                           Data'[i] = IF i > offset /\ i <= offset + count
                                      THEN arg[i - offset] ELSE v[i]]_vars

\* C27: ReplaceData(offset, count, arg) returns ErrIndexSize when arg is
\* longer than count.
C27_ReplaceDataLongerArg ==
    (call.op = "ReplaceData" /\ Len(call.arg.Data) > call.count) => err = ErrIndexSize

-----------------------------------------------------------------------------
(* Configuring the decoder *)

\* a and b are equal but for the case of their letters
EqualFold(a, b) ==
    /\ Len(a) = Len(b)
    /\ \A i \in DOMAIN a :
           \/ a[i] = b[i]
           \/ \E j \in DOMAIN upper : {a[i], b[i]} = {upper[j], lower[j]}

OneRecognizedKey ==
    /\ call.op = "Initialize"
    /\ Len(call.kv) = 2
    /\ call.kv[1] \in {str_name_resolver, str_mediatype, str_format}

PassThroughValue(v) ==
    \E w \in {str_rfc6020, str_yang_data_xml, str_xml, str_default} : EqualFold(v, w)

ModuleNameValue(v) ==
    \E w \in {str_rfc7951, str_yang_data_json, str_json} : EqualFold(v, w)

\* C22: Decoder.Initialize given one recognized key (name.resolver,
\* mediatype or format) selects pass-through resolution for the values
\* rfc6020, application/yang-data+xml, xml and default, and
\* module-name-to-namespace resolution for rfc7951,
\* application/yang-data+json and json, matching the value
\* case-insensitively; any other value, and any odd-length argument list,
\* returns an error.
C22_InitializeSelectsResolver ==
    /\ OneRecognizedKey =>
           IF PassThroughValue(call.kv[2])
           THEN err = ErrNil /\ dec.childname = "rfc6020Lookup"
           ELSE IF ModuleNameValue(call.kv[2])
           THEN err = ErrNil /\ dec.childname = "rfc7951Lookup"
           ELSE err # ErrNil
    /\ (call.op = "Initialize" /\ Len(call.kv) % 2 = 1) => err # ErrNil

C22_Witness ==
    /\ OneRecognizedKey
    /\ call.kv[2] # ToLower(call.kv[2])
    /\ ModuleNameValue(call.kv[2])
    /\ dec.childname = "rfc7951Lookup"

\* C23: by default the decoder uses pass-through (RFC6020) resolution:
\* Initialize called with no configuration pairs, as the XML reader does
\* when the Unmarshaler has no InitializeArgs, succeeds and selects
\* pass-through.
C23_DefaultIsPassThrough ==
    (\/ call.op = "Initialize" /\ call.kv = <<>>
     \/ call.op = "XMLReader.ReadFrom" /\ call.InitializeArgs = <<>>)
        => err = ErrNil /\ dec.childname = "rfc6020Lookup"

-----------------------------------------------------------------------------
(* Resolving names through choice and case entries *)

DataKinds == {"LeafEntry", "DirectoryEntry", "AnyXMLEntry", "AnyDataEntry"}

\* the data entries called local that are a child of E, a child of a choice
\* or case child of E, or a child of a case that is a child of a child of E
Resolvable(E, local) ==
    {c \in 1..Len(Schema) :
         /\ Schema[c].Name = local
         /\ Schema[c].Kind \in DataKinds
         /\ \/ c \in Schema[E].Dir
            \/ \E ch \in Schema[E].Dir :
                   \/ Schema[ch].Kind \in {"ChoiceEntry", "CaseEntry"} /\ c \in Schema[ch].Dir
                   \/ \E chch \in Schema[ch].Dir :
                          Schema[chch].Kind = "CaseEntry" /\ c \in Schema[chch].Dir}

\* the element of the StartElement just handled is the new last child of
\* the node the cursor was on, and the cursor
DecodedAsChild(nm) ==
    /\ Len(heap') = Len(heap) + 1
    /\ cursor' = Len(heap')
    /\ NodeType(heap', cursor') = NodeTypeElement
    /\ heap'[cursor'].value.name = nm
    /\ heap'[cursor'].parent = cursor
    /\ ChildWalk(heap', cursor) = ChildWalk(heap, cursor) \o <<cursor'>>

\* C24: with the schema cursor at entry E, a name (one the name resolver
\* accepts, in no namespace or in the module's) resolves to a data entry
\* that is a direct child of E, or a child of a choice or case child of E,
\* or a child of a case nested one level inside a child of E, and is
\* decoded as a normal data child; a name matching only a choice or case
\* entry itself, or no entry within that depth, is rejected as an
\* unexpected element.
C24_ResolvesThroughChoiceAndCase ==
    [][(/\ call'.op = "StartElement"
        /\ dec.schema # Nil
        /\ childname(Un, call'.arg.Name).err = ErrNil
        /\ childname(Un, call'.arg.Name).name.Space \in {"", Modules.module1.Namespace}) =>
           LET nm == childname(Un, call'.arg.Name).name
               found == Resolvable(dec.schema, nm.Local)
           IN  IF found # {}
               THEN /\ err' = ErrNil
                    /\ dec'.errors = dec.errors
                    /\ ~dec.skip => dec'.schema \in found /\ DecodedAsChild(nm)
               ELSE /\ err' = ErrNil
                    /\ dec'.errors = Append(dec.errors, ErrUnexpectedElementName)
                    /\ dec'.skip
                    /\ heap' = heap /\ cursor' = cursor]_vars

\* ethernet-address, held by case ethernet of choice address, was decoded
\* as a child of the system element
C24_Witness ==
    /\ call.op = "StartElement" /\ err = ErrNil
    /\ dec.errors = <<>>
    /\ Schema[dec.schema].Name = "ethernet-address"
    /\ heap[cursor].value.name.Local = "ethernet-address"
    /\ heap[cursor].parent # Nil
    /\ heap[heap[cursor].parent].value.name.Local = "system"

-----------------------------------------------------------------------------
(* Attribute lists *)

Elements(h) == {n \in 1..Len(h) : NodeType(h, n) = NodeTypeElement}

\* C28: every attribute node in an element's attribute list, whether it
\* was created with the element or added by AppendAttribute,
\* PrependAttribute, InsertAttributeAfter or InsertAttributeBefore,
\* reports that element as its Parent().
C28_AttributeParentIsOwner ==
    \A n \in Elements(heap) : \A a \in Range(AttrWalk(heap, n)) : heap[a].parent = n

\* the attribute list of call'.n after the call is l, well formed
AttributesBecome(l) ==
    LET n == call'.n
    IN  /\ AttrWalk(heap', n) = l
        /\ heap'[n].firstAttr = l[1]
        /\ heap'[heap'[n].firstAttr].prevSib = l[Len(l)]
        /\ heap'[l[Len(l)]].nextSib = Nil

\* the position of attribute r in the list l
PlaceOf(l, r) == CHOOSE i \in 1..Len(l) : l[i] = r

\* C29: for an Element n and a reference attribute r in n's attribute
\* list, InsertAttributeAfter(a, r) and InsertAttributeBefore(a, r) succeed
\* and place the new attribute immediately after, respectively before, r,
\* keeping the sibling invariant (first and last attribute updated, no
\* next sibling after the tail); with a nil reference they append,
\* respectively prepend.
C29_InsertAttributeAtReference ==
    [][(/\ call'.op \in {"InsertAttributeAfter", "InsertAttributeBefore"}
        /\ call'.n \in Elements(heap)
        /\ call'.ref = Nil \/ call'.ref \in Range(AttrWalk(heap, call'.n))) =>
           LET l == AttrWalk(heap, call'.n)
               new == Len(heap')
               k == IF call'.ref = Nil
                    THEN (IF call'.op = "InsertAttributeAfter" THEN Len(l) ELSE 0)
                    ELSE (IF call'.op = "InsertAttributeAfter"
                          THEN PlaceOf(l, call'.ref) ELSE PlaceOf(l, call'.ref) - 1)
           IN  /\ err' = ErrNil
               /\ Len(heap') = Len(heap) + 1
               /\ NodeType(heap', new) = NodeTypeAttribute
               /\ AttributesBecome(SubSeq(l, 1, k) \o <<new>> \o SubSeq(l, k + 1, Len(l)))]_vars

-----------------------------------------------------------------------------
(* Namespaces in marshaled element tags *)

\* the entries of the last marshaling run that encoded a tag of an Element
TagsEncoded(fn) ==
    {i \in 1..Len(output.out) :
         /\ output.out[i].thunk.fn = fn
         /\ NodeType(heap, output.out[i].thunk.n) = NodeTypeElement
         /\ output.out[i].toks # <<>>}

\* the name the start tag of Element n has to carry
ExpectedName(n) ==
    LET name == heap[n].value.name
        p == heap[n].parent
    IN  IF /\ marshalExplicitNS \notin output.opts
           /\ p # Nil
           /\ (IF NodeType(heap, p) \in {NodeTypeElement, NodeTypeAttribute}
               THEN heap[p].value.name.Space ELSE "") = name.Space
        THEN [Space |-> "", Local |-> name.Local]
        ELSE name

\* C30: with always-emit-namespace off an element's namespace is omitted
\* from its tag exactly when it equals its parent's; with WithExplicitNS
\* on the namespace is emitted with every element; in both modes the name
\* of an element's exit token equals the name of its enter token; and the
\* default xmlns attribute is never emitted as a regular attribute.
C30_NamespaceElision ==
    call.op = "MarshalXML" =>
        /\ \A i \in TagsEncoded("encodeNodeValueStart") :
               LET tok == output.out[i].toks[1]
               IN  /\ tok.Name = ExpectedName(output.out[i].thunk.n)
                   /\ \A k \in DOMAIN tok.Attr : tok.Attr[k].Name # xmlnsDefault
        /\ \A i \in TagsEncoded("encodeNodeValueStart"), j \in TagsEncoded("encodeNodeValueEnd") :
               output.out[i].thunk.n = output.out[j].thunk.n =>
                   output.out[j].toks[1].Name = output.out[i].toks[1].Name

-----------------------------------------------------------------------------
(* Structural validity for every pair of kinds *)

\* C33: allowInsertChild(parentKind, childKind) is true exactly when
\* neither kind is the null kind, the parent kind is Document or Element,
\* the child kind is not Document, and the child kind is DocumentType or
\* Declaration only if the parent kind is Document; attribute insertion is
\* allowed exactly when the owner kind is Element or Declaration.  This
\* holds for every pair of the defined node kinds.
C33_AllowInsertTable ==
    /\ \A parentKind, childKind \in NodeTypes :
           allowInsertChild(parentKind, childKind)
             <=> /\ parentKind # NodeTypeNull /\ childKind # NodeTypeNull
                 /\ parentKind \in {NodeTypeDocument, NodeTypeElement}
                 /\ childKind # NodeTypeDocument
                 /\ childKind \in {NodeTypeDocumentType, NodeTypeDeclaration}
                        => parentKind = NodeTypeDocument
    /\ \A ownerKind \in NodeTypes :
           allowInsertAttribute(ownerKind)
             <=> ownerKind \in {NodeTypeElement, NodeTypeDeclaration}
    /\ call.op \in ChildOps =>
           LET allowed == allowInsertChild(NodeType(heap, call.n), NodeType(heap, call.child))
           IN  /\ ~allowed => err = ErrHierarchyRequest
               /\ (allowed /\ call.ref = Nil) => err # ErrHierarchyRequest

\* a Declaration was refused as the child of an Element
C33_Witness ==
    /\ call.op \in ChildOps
    /\ NodeType(heap, call.n) = NodeTypeElement
    /\ NodeType(heap, call.child) = NodeTypeDeclaration
    /\ err = ErrHierarchyRequest

-----------------------------------------------------------------------------
(* Inserting a child before a reference *)

\* C34: after a successful InsertChildBefore(child, ref) on node n where
\* ref is a child of n: child.Parent() is n, child.NextSibling() is ref,
\* ref.PreviousSibling() is child, the relative order of all other
\* children is unchanged, and if ref was n's first child then
\* n.FirstChild() is child while n.LastChild() is unchanged.  With ref nil
\* the result equals PrependChild(child); likewise
\* InsertChildAfter(child, nil) equals AppendChild(child).
C34_InsertChildBefore ==
    [][/\ (/\ call'.op = "InsertChildBefore"
           /\ err' = ErrNil
           /\ call'.ref # Nil
           /\ SiblingListOK(heap, call'.n)
           /\ call'.ref \in Range(ChildWalk(heap, call'.n))) =>
              LET n == call'.n
                  child == call'.child
                  ref == call'.ref
                  l == ChildWalk(heap, n)
                  k == CHOOSE i \in DOMAIN l : l[i] = ref
              IN  /\ heap'[child].parent = n
                  /\ heap'[child].nextSib = ref
                  /\ heap'[ref].prevSib = child
                  /\ ChildWalk(heap', n)
                       = SubSeq(l, 1, k - 1) \o <<child>> \o SubSeq(l, k, Len(l))
                  /\ k = 1 => /\ heap'[n].firstChild = child
                              /\ heap'[heap'[n].firstChild].prevSib = l[Len(l)]
       /\ (call'.op = "InsertChildBefore" /\ call'.ref = Nil) =>
              /\ heap' = node_PrependChild(heap, call'.n, call'.child).h
              /\ err' = node_PrependChild(heap, call'.n, call'.child).err
       /\ (call'.op = "InsertChildAfter" /\ call'.ref = Nil) =>
              /\ heap' = node_AppendChild(heap, call'.n, call'.child).h
              /\ err' = node_AppendChild(heap, call'.n, call'.child).err]_vars

-----------------------------------------------------------------------------
(* Text and the restore stack *)

\* C35: a CharData event in the schema-guided decoder appends at most one
\* Text child to the current node cursor and leaves the schema cursor, the
\* node cursor, the skip flag and the restore stack exactly as they were,
\* so that element events that follow the text inside the same open
\* element are still resolved against, and attached to, that open element.
C35_CharDataKeepsCursors ==
    [][call'.op = "CharData" =>
           /\ dec'.schema = dec.schema
           /\ cursor' = cursor
           /\ dec'.skip = dec.skip
           /\ dec'.stack = dec.stack
           /\ \/ heap' = heap
              \/ /\ Len(heap') = Len(heap) + 1
                 /\ NodeType(heap', Len(heap')) = NodeTypeText
                 /\ ChildWalk(heap', cursor) = ChildWalk(heap, cursor) \o <<Len(heap')>>]_vars

\* C36: in every reachable state of the schema-guided decoder the number
\* of frames on the restore stack equals the number of StartElement events
\* not yet matched by an EndElement, counting valid, skipped and failed
\* elements alike (the stack is empty at Begin, every StartElement adds
\* one frame and every EndElement takes one away); CharData, Comment and
\* ProcInst events never change the stack depth.
C36_StackDepthIsNesting ==
    /\ [][/\ call'.op = "StartElement" => Len(dec'.stack) = Len(dec.stack) + 1
          /\ call'.op = "EndElement" =>
                 \/ Len(dec.stack) > 0 /\ Len(dec'.stack) = Len(dec.stack) - 1
                 \/ Len(dec.stack) = 0 /\ err' = Panic
          /\ call'.op \in {"CharData", "Comment", "ProcInst"} =>
                 Len(dec'.stack) = Len(dec.stack)]_vars
    /\ [](call.op = "Begin" => dec.stack = <<>>)

\* text arrived inside an element nested in a failed element
C36_Witness ==
    /\ call.op = "CharData"
    /\ err = ErrNil
    /\ Len(dec.stack) = 2
    /\ dec.stack[1].unskip

-----------------------------------------------------------------------------
(* Elements stay detached while they are open *)

\* the elements still open: the cursor and its pending ancestors, without
\* the root
RECURSIVE openElements(_, _, _)
openElements(h, it, fuel) ==
    IF it = Nil \/ fuel = 0 THEN {}
    ELSE IF h[it].parent = Nil THEN {}
    ELSE {it} \cup openElements(h, h[it].parent, fuel - 1)

\* the nodes reachable from n through child links
Below(n) == Range(documentOrderOf(heap, n))

\* no open element, and nothing below one, is reachable from the root
OpenElementsDetached ==
    (call.op \in BuilderOps \cup {"End"} /\ cursor # Nil) =>
        LET root == Builder_Root(heap, cursor, Len(heap))
        IN  \A n \in openElements(heap, cursor, Len(heap)) :
                Below(n) \cap Below(root) = {}

-----------------------------------------------------------------------------
(* The marshaler's work stack *)

\* the thunks a depth-first walk of the tree under n runs: enter n, the
\* children from first to last with what is below them, exit n
RECURSIVE thunkWalk(_, _, _)
RECURSIVE thunkWalkAll(_, _, _)
thunkWalk(h, n, fuel) ==
    IF fuel = 0 THEN <<>>
    ELSE <<StartThunk(n)>> \o thunkWalkAll(h, ChildWalk(h, n), fuel - 1) \o <<EndThunk(n)>>
thunkWalkAll(h, l, fuel) ==
    IF l = <<>> THEN <<>>
    ELSE thunkWalk(h, Head(l), fuel) \o thunkWalkAll(h, Tail(l), fuel)

Reverse(l) == [i \in DOMAIN l |-> l[Len(l) + 1 - i]]

\* the thunks of a run in the order they ran
Thunks(out) == [i \in DOMAIN out |-> out[i].thunk]

\* the token the thunk th hands to the encoder, if it has one
Refused(th) ==
    /\ NodeType(heap, th.n) = NodeTypeElement
    /\ heap[th.n].value.name.Local = ""

\* C39: the marshaler's work-stack walk terminates on every finite tree
\* satisfying the sibling-list invariant: it invokes exactly one enter
\* thunk and one exit thunk per node, pushes each node's children
\* tail-to-head so that the first child is the next item popped, and ends
\* with an empty stack; if any token emission fails, the walk stops
\* immediately, no further token is emitted, and the error is returned.
C39_WorkStackWalk ==
    (call.op = "MarshalXML" /\ \A p \in NodeIds : SiblingListOK(heap, p)) =>
        LET e == [opts |-> output.opts, emitExplicitNS |-> FALSE]
            r == treeOrder(heap, e, call.n)
            walk == thunkWalk(heap, call.n, Len(heap) + 1)
            ran == Thunks(output.out)
        IN  /\ r.out = output.out /\ r.err = output.err /\ err = output.err
            /\ output.err \notin {Panic, "does not terminate"}
            /\ \A n \in {walk[i].n : i \in DOMAIN walk} :
                   pushAfter(heap, [d |-> <<>>, panic |-> FALSE], [n |-> n]).d
                     = <<EndThunk(n)>>
                       \o Reverse([i \in DOMAIN ChildWalk(heap, n) |->
                                       StartThunk(ChildWalk(heap, n)[i])])
            /\ IF \E i \in DOMAIN walk : Refused(walk[i])
               THEN LET k == CHOOSE i \in DOMAIN walk :
                                 Refused(walk[i]) /\ \A j \in 1..(i - 1) : ~Refused(walk[j])
                    IN  /\ output.err # ErrNil
                        /\ ran = SubSeq(walk, 1, k)
                        /\ output.out[k].toks = <<>>
               ELSE /\ output.err = ErrNil
                    /\ ran = walk
                    /\ r.d = <<>>

\* a tree with a nested element and a second child was walked to the end
C39_Witness ==
    /\ call.op = "MarshalXML" /\ output.err = ErrNil
    /\ \A p \in NodeIds : SiblingListOK(heap, p)
    /\ Len(ChildWalk(heap, call.n)) >= 2
    /\ \E c \in Range(ChildWalk(heap, call.n)) : heap[c].firstChild # Nil
    /\ Thunks(output.out) = thunkWalk(heap, call.n, Len(heap) + 1)

-----------------------------------------------------------------------------
(* iterator.go: the child iterator *)

\* children the iterated parent has at most
MaxKids == 3
\* NextSibling and PreviousSibling calls made on the iterators at most
MaxIterCalls == 4

IterNames == {[Space |-> "", Local |-> "foo"], [Space |-> "", Local |-> "bar"]}

\* (*node).FirstChild, LastChild, NextSibling, PreviousSibling: the Node they
\* return is the nil interface (Nil) or a node; "panic" is a nil dereference
node_FirstChild(h, n) == [ret |-> h[n].firstChild, panic |-> FALSE]

node_LastChild(h, n) ==
    IF h[n].firstChild = Nil
    THEN [ret |-> Nil, panic |-> FALSE]
    ELSE [ret |-> h[h[n].firstChild].prevSib, panic |-> h[h[n].firstChild].prevSib = Nil]

node_NextSibling(h, n) == [ret |-> h[n].nextSib, panic |-> FALSE]

node_PreviousSibling(h, n) ==
    IF h[n].prevSib = Nil
    THEN [ret |-> Nil, panic |-> TRUE]
    ELSE IF h[h[n].prevSib].nextSib # Nil
         THEN [ret |-> h[n].prevSib, panic |-> FALSE]
         ELSE [ret |-> Nil, panic |-> FALSE]

\* the for loop of nodeIterator.NextSibling, from cur
RECURSIVE nextLoop(_, _, _, _)
nextLoop(h, itr, cur, fuel) ==
    IF fuel = 0 THEN [it |-> itr, ret |-> Nil, err |-> "does not terminate"]
    ELSE IF cur = Nil THEN [it |-> [itr EXCEPT !.wrap = Nil], ret |-> Nil, err |-> ErrNil]
    ELSE IF cur \in itr.match THEN [it |-> [itr EXCEPT !.wrap = cur], ret |-> cur, err |-> ErrNil]
    ELSE nextLoop(h, itr, h[cur].nextSib, fuel - 1)

\* nodeIterator.NextSibling: it.wrap.nodePtr() is a method call on the Node
\* interface, which panics when FirstChild or NextSibling returned nil
nodeIterator_NextSibling(h, itr) ==
    LET w == IF itr.wrap = Nil THEN node_FirstChild(h, itr.parent)
                               ELSE node_NextSibling(h, itr.wrap)
        it1 == [itr EXCEPT !.wrap = w.ret]
    IN  IF w.panic \/ w.ret = Nil
        THEN [it |-> it1, ret |-> Nil, err |-> Panic]
        ELSE nextLoop(h, it1, w.ret, Len(h) + 1)

\* the for loop of nodeIterator.PreviousSibling, from cur: it runs while
\* cur.nextSib != nil
RECURSIVE prevLoop(_, _, _, _)
prevLoop(h, itr, cur, fuel) ==
    IF fuel = 0 THEN [it |-> itr, ret |-> Nil, err |-> "does not terminate"]
    ELSE IF cur = Nil THEN [it |-> itr, ret |-> Nil, err |-> Panic]
    ELSE IF h[cur].nextSib = Nil THEN [it |-> [itr EXCEPT !.wrap = Nil], ret |-> Nil, err |-> ErrNil]
    ELSE IF cur \in itr.match THEN [it |-> [itr EXCEPT !.wrap = cur], ret |-> cur, err |-> ErrNil]
    ELSE prevLoop(h, itr, h[cur].prevSib, fuel - 1)

nodeIterator_PreviousSibling(h, itr) ==
    LET w == IF itr.wrap = Nil THEN node_LastChild(h, itr.parent)
                               ELSE node_PreviousSibling(h, itr.wrap)
        it1 == [itr EXCEPT !.wrap = w.ret]
    IN  IF w.panic \/ w.ret = Nil
        THEN [it |-> it1, ret |-> Nil, err |-> Panic]
        ELSE prevLoop(h, it1, w.ret, Len(h) + 1)

\* &nodeIterator{parent, nil, match}: match is the set of nodes the filter
\* function accepts
newNodeIterator(parent, match) == [parent |-> parent, wrap |-> Nil, match |-> match]

\* root.AppendChild(CreateElement(xml.StartElement{Name: name})) for each name
RECURSIVE withKids(_, _, _)
withKids(h, parent, names) ==
    IF names = <<>> THEN h
    ELSE LET r == newStartElement(St(h), [Name |-> Head(names), Attr |-> <<>>])
         IN  withKids(node_AppendChild(r.s.h, parent, r.n).h, parent, Tail(names))

IterTrees ==
    {withKids(newStartElement(St(<<>>), [Name |-> [Space |-> "", Local |-> "root"],
                                          Attr |-> <<>>]).s.h, 1, names) :
        names \in SeqsUpTo(IterNames, MaxKids)}

InitIterator ==
    /\ heap \in IterTrees
    /\ call = NoCall
    /\ err = ErrNil
    /\ cursor = Nil
    /\ opts = {}
    /\ output = NoOutput
    /\ nops = 0
    /\ jd = NoJD
    /\ dec = NoDec
    /\ iter = NoIt
    /\ mgr = NoMgr

IterCreated(op, itr) ==
    /\ iter' = itr
    /\ call' = [NoCall EXCEPT !.op = op, !.n = itr.parent]
    /\ err' = ErrNil
    /\ nops' = 0
    /\ UNCHANGED <<heap, cursor, opts, output, jd, dec, mgr>>

NewChildIterator(parent) ==
    IterCreated("NewChildIterator", newNodeIterator(parent, NodeIds))

NewChildNamedIterator(parent, name) ==
    IterCreated("NewChildNamedIterator",
                newNodeIterator(parent, {n \in NodeIds : heap[n].value.name = name}))

NewChildFilteringIterator(parent, filter) ==
    IterCreated("NewChildFilteringIterator", newNodeIterator(parent, filter))

IterCalled(op, r) ==
    /\ iter.parent # Nil
    /\ nops < MaxIterCalls
    /\ iter' = r.it
    /\ call' = [NoCall EXCEPT !.op = op, !.n = iter.parent, !.child = r.ret]
    /\ err' = r.err
    /\ nops' = nops + 1
    /\ UNCHANGED <<heap, cursor, opts, output, jd, dec, mgr>>

IterNextSibling == IterCalled("NextSibling", nodeIterator_NextSibling(heap, iter))

IterPreviousSibling == IterCalled("PreviousSibling", nodeIterator_PreviousSibling(heap, iter))

NextIterator ==
    \/ NewChildIterator(1)
    \/ \E name \in IterNames : NewChildNamedIterator(1, name)
    \/ \E filter \in SUBSET NodeIds : NewChildFilteringIterator(1, filter)
    \/ IterNextSibling
    \/ IterPreviousSibling

SpecIterator == InitIterator /\ [][NextIterator]_vars

\* the results of k successive calls of one method, starting from itr
RECURSIVE successive(_, _, _, _)
successive(h, itr, op, k) ==
    IF k = 0 THEN <<>>
    ELSE LET r == IF op = "NextSibling" THEN nodeIterator_NextSibling(h, itr)
                                        ELSE nodeIterator_PreviousSibling(h, itr)
         IN  <<[ret |-> r.ret, err |-> r.err]>> \o successive(h, r.it, op, k - 1)

\* the children of the iterator's parent its filter accepts, in list order
Matching == SelectSeq(ChildWalk(heap, iter.parent), LAMBDA c : c \in iter.match)

\* what an iteration over the nodes ns returns: each of them, then nil
ThenNil(ns) ==
    [i \in 1..(Len(ns) + 1) |->
        [ret |-> IF i <= Len(ns) THEN ns[i] ELSE Nil, err |-> ErrNil]]

\* C38: from a fresh child iterator, successive NextSibling calls return the
\* children the filter accepts in list order, each once, and then nil (also
\* when the parent has no children); successive PreviousSibling calls return
\* them from the last child backwards, and then nil.
C38_IterationInOrder ==
    iter.parent # Nil =>
        LET fresh == newNodeIterator(iter.parent, iter.match)
        IN  /\ successive(heap, fresh, "NextSibling", Len(Matching) + 1) = ThenNil(Matching)
            /\ successive(heap, fresh, "PreviousSibling", Len(Matching) + 1)
                 = ThenNil(Reverse(Matching))

-----------------------------------------------------------------------------
(* session: the Manager (part_003) *)

\* server sessions the acceptors start at most
MaxSessions == 2
\* Accept calls made at most
MaxAccepts == 3
\* goroutines calling Accept
Procs == {1, 2}

\* ID is uint32: the value hi * 2^16 + lo, kept as two 16-bit halves
Half == 65536

ID(n) == [hi |-> n \div Half, lo |-> n % Half]

MaxUint32 == [hi |-> Half - 1, lo |-> Half - 1]

\* id++ on a uint32
inc(id) ==
    IF id.lo = Half - 1 THEN [hi |-> (id.hi + 1) % Half, lo |-> 0]
    ELSE [hi |-> id.hi, lo |-> id.lo + 1]

maxIDtries == 16

ErrNoAcceptor == "failed to create session using transport"
ErrNoUniqueID == "failed to get unique session ID"
ErrAcceptFailed == "failed to accept transport"
ErrUnexpectedID == "unexpected session ID"
ErrNoSession == "session does not exist"

\* genIncrement.NextID without the step over 0
genIncrement_NextID_plain(gen) ==
    LET id1 == inc(gen.id)
    IN  [gen |-> [gen EXCEPT !.id = id1], ret |-> id1]

\* genIncrement.NextID: gen.id++; if gen.id == 0 { gen.id++ }; return gen.id
genIncrement_NextID(gen) ==
    LET id1 == inc(gen.id)
        id2 == IF id1 = ID(0) THEN inc(id1) ELSE id1
    IN  [gen |-> [gen EXCEPT !.id = id2], ret |-> id2]

\* the IDs an IDGenerator passed to WithIDSource returns
SourceIDs == {ID(0), ID(1), ID(2)}

\* the transports the registered acceptors support, and those Accept is called with
Acceptors == {"foo"}
Transports == {"foo", "bar"}

IdleFrame == [pc |-> "idle", i |-> 0, id |-> ID(0)]

\* NewManager(WithAcceptor(...)), with the default ID source, with
\* WithIDSource(&genIncrement{id: ...}) or with another IDGenerator
InitManager ==
    /\ mgr \in {[sessions |-> <<>>, idgen |-> g, locked |-> 0,
                 accept |-> [p \in Procs |-> IdleFrame], servers |-> <<>>] :
                    g \in {[kind |-> "genIncrement", id |-> c] : c \in {ID(0), [hi |-> Half - 1, lo |-> Half - 2], MaxUint32}}
                          \cup {[kind |-> "source", id |-> ID(0)]}}
    /\ call = [op |-> "none", id |-> ID(0), p |-> 0]
    /\ err = ErrNil
    /\ heap = <<>>
    /\ cursor = Nil
    /\ opts = {}
    /\ output = NoOutput
    /\ nops = 0
    /\ jd = NoJD
    /\ dec = NoDec
    /\ iter = NoIt

Tracked(m, id) == id \in DOMAIN m.sessions

\* the cleanup goroutine without its delete
deleteSession_kept(m, id) == m

\* delete(mgr.sessions, id)
deleteSession(m, id) ==
    [m EXCEPT !.sessions = [x \in (DOMAIN m.sessions) \ {id} |-> m.sessions[x]]]

\* Server.Release: the session's Wait channel is closed
releaseServer(m, s) == [m EXCEPT !.servers[s].released = TRUE]

ManagerStep(m, op, p, id, e) ==
    /\ mgr' = m
    /\ call' = [op |-> op, id |-> id, p |-> p]
    /\ err' = e
    /\ UNCHANGED <<heap, cursor, opts, output, jd, dec, iter>>

\* manager.Accept up to mgr.Lock(): the acceptor lookup
AcceptBegin(p, using) ==
    /\ mgr.accept[p].pc = "idle"
    /\ nops < MaxAccepts
    /\ Len(mgr.servers) < MaxSessions
    /\ nops' = nops + 1
    /\ IF using \notin Acceptors
       THEN ManagerStep(mgr, "Accept", p, ID(0), ErrNoAcceptor)
       ELSE /\ mgr.locked = 0
            /\ ManagerStep([mgr EXCEPT !.locked = p, !.accept[p] = [pc |-> "try", i |-> 0, id |-> ID(0)]],
                           "Lock", p, ID(0), ErrNil)

\* one iteration of the loop over mgr.idgen.NextID(), which returns id
AcceptTried(p, gen, id) ==
    LET f == mgr.accept[p]
        free == id # ID(0) /\ ~Tracked(mgr, id)
        f1 == IF free THEN [pc |-> "got", i |-> f.i, id |-> id]
              ELSE [pc |-> IF f.i + 1 < maxIDtries THEN "try" ELSE "got", i |-> f.i + 1, id |-> id]
    IN  ManagerStep([mgr EXCEPT !.idgen = gen, !.accept[p] = f1], "NextID", p, id, ErrNil)

AcceptTry(p) ==
    /\ mgr.accept[p].pc = "try"
    /\ UNCHANGED nops
    /\ IF mgr.idgen.kind = "genIncrement"
       THEN LET r == genIncrement_NextID(mgr.idgen) IN AcceptTried(p, r.gen, r.ret)
       ELSE \E id \in SourceIDs : AcceptTried(p, mgr.idgen, id)

\* the rest of manager.Accept; accepted is what acceptor.Accept answers
AcceptFinish(p, accepted) ==
    LET f == mgr.accept[p]
        m0 == [mgr EXCEPT !.locked = 0, !.accept[p] = IdleFrame]
        s == Len(mgr.servers) + 1
    IN  /\ f.pc = "got"
        /\ UNCHANGED nops
        /\ IF f.id = ID(0) THEN ManagerStep(m0, "Accept", p, ID(0), ErrNoUniqueID)
           ELSE IF accepted = "error" THEN ManagerStep(m0, "Accept", p, f.id, ErrAcceptFailed)
           ELSE IF accepted = "other id" THEN ManagerStep(m0, "Accept", p, f.id, ErrUnexpectedID)
           ELSE ManagerStep([m0 EXCEPT !.sessions = (f.id :> s) @@ mgr.sessions,
                                       !.servers = Append(mgr.servers,
                                           [id |-> f.id, released |-> FALSE, cleanup |-> "waiting"])],
                            "Accept", p, f.id, ErrNil)

\* the application calls session.Release()
Release(s) ==
    /\ s \in DOMAIN mgr.servers
    /\ ~mgr.servers[s].released
    /\ UNCHANGED nops
    /\ ManagerStep(releaseServer(mgr, s), "Release", 0, mgr.servers[s].id, ErrNil)

\* manager.Terminate(id, with)
Terminate(id) ==
    /\ mgr.locked = 0
    /\ UNCHANGED nops
    /\ IF Tracked(mgr, id)
       THEN ManagerStep(releaseServer(mgr, mgr.sessions[id]), "Terminate", 0, id, ErrNil)
       ELSE ManagerStep(mgr, "Terminate", 0, id, ErrNoSession)

\* the goroutine Accept starts: <-serverSession.Wait()
CleanupWait(s) ==
    /\ s \in DOMAIN mgr.servers
    /\ mgr.servers[s].cleanup = "waiting"
    /\ mgr.servers[s].released
    /\ UNCHANGED nops
    /\ ManagerStep([mgr EXCEPT !.servers[s].cleanup = "locking"], "Wait", 0, mgr.servers[s].id, ErrNil)

\* the goroutine Accept starts: mgr.Lock(); delete(mgr.sessions, id); mgr.Unlock()
CleanupDelete(s) ==
    /\ s \in DOMAIN mgr.servers
    /\ mgr.servers[s].cleanup = "locking"
    /\ mgr.locked = 0
    /\ UNCHANGED nops
    /\ ManagerStep([deleteSession(mgr, mgr.servers[s].id) EXCEPT !.servers[s].cleanup = "done"],
                   "delete", 0, mgr.servers[s].id, ErrNil)

TerminateIDs == SourceIDs \cup {MaxUint32}

NextManager ==
    \/ \E p \in Procs, using \in Transports : AcceptBegin(p, using)
    \/ \E p \in Procs : AcceptTry(p)
    \/ \E p \in Procs, accepted \in {"ok", "error", "other id"} : AcceptFinish(p, accepted)
    \/ \E s \in 1..MaxSessions : Release(s)
    \/ \E id \in TerminateIDs : Terminate(id)
    \/ \E s \in 1..MaxSessions : CleanupWait(s)
    \/ \E s \in 1..MaxSessions : CleanupDelete(s)

SpecManager == InitManager /\ [][NextManager]_vars

\* sync.Mutex hands the lock to a goroutine that keeps waiting for it, every
\* goroutine that holds it runs on, and a goroutine blocked on a closed
\* channel is woken
FairSpecManager ==
    /\ SpecManager
    /\ \A p \in Procs : WF_vars(AcceptTry(p))
    /\ \A p \in Procs : WF_vars(\E accepted \in {"ok", "error", "other id"} : AcceptFinish(p, accepted))
    /\ \A s \in 1..MaxSessions : WF_vars(CleanupWait(s))
    /\ \A s \in 1..MaxSessions : SF_vars(CleanupDelete(s))

\* the IDs k successive NextID calls return, starting from the generator gen
RECURSIVE nextIDs(_, _)
nextIDs(gen, k) ==
    IF k = 0 THEN <<>>
    ELSE LET r == genIncrement_NextID(gen) IN <<r.ret>> \o nextIDs(r.gen, k - 1)

\* C40: genIncrement.NextID never returns 0: it returns the counter plus one
\* modulo 2^32, and 1 when the counter stands at MaxUint32; the IDs of
\* consecutive calls are distinct as long as the counter has not wrapped.
C40_NextIDSkipsZero ==
    [][(call'.op = "NextID" /\ mgr.idgen.kind = "genIncrement") =>
          LET c == mgr.idgen.id
              ids == nextIDs(mgr.idgen, maxIDtries)
          IN  /\ call'.id # ID(0)
              /\ call'.id = IF c = MaxUint32 THEN ID(1) ELSE inc(c)
              /\ mgr'.idgen.id = call'.id
              /\ ids[1] = call'.id
              /\ \A j \in DOMAIN ids : ids[j] # ID(0)
              /\ \A i, j \in DOMAIN ids :
                    (i < j /\ \A k \in 1..(j - 1) : ids[k] # MaxUint32 /\ c # MaxUint32)
                        => ids[i] # ids[j]]_vars

\* a session is tracked under MaxUint32 and the next ID drawn was 1
C40_Witness ==
    /\ call.op = "NextID"
    /\ call.id = ID(1)
    /\ mgr.idgen = [kind |-> "genIncrement", id |-> ID(1)]
    /\ Tracked(mgr, MaxUint32)

\* a session that has not been released is tracked under id
LiveUnder(m, id) == Tracked(m, id) /\ ~m.servers[m.sessions[id]].released

\* the loop of Accept ran out: none of the maxIDtries IDs was free and valid
Exhausted(f) == f.pc = "got" /\ f.i = maxIDtries

\* C31: Accept never tracks a new session under ID 0 or under an ID that is
\* tracked for another live session; when the ID source yields no free valid
\* ID within maxIDtries attempts, Accept returns an error and leaves the map
\* of tracked sessions unchanged.
C31_AcceptTracksFreshID ==
    [][\A p \in Procs :
          (call'.op = "Accept" /\ call'.p = p /\ mgr.accept[p].pc = "got") =>
              LET f == mgr.accept[p]
              IN  /\ err' = ErrNil => (f.id # ID(0) /\ ~LiveUnder(mgr, f.id))
                  /\ Exhausted(f) => (err' # ErrNil /\ mgr'.sessions = mgr.sessions)]_vars

\* the session s was started by an acceptor for an Accept that returned it
Started(s) == s \in DOMAIN mgr.servers

\* the cleanup goroutine of s has run
Dropped(s) == Started(s) /\ mgr.servers[s].cleanup = "done"

\* once a session is released its ID is eventually not tracked
ReleasedAreDropped ==
    \A s \in 1..MaxSessions :
        (Started(s) /\ mgr.servers[s].released /\ ~Dropped(s))
            ~> (Started(s) /\ ~Tracked(mgr, mgr.servers[s].id))

\* Terminate for an ID no session was ever accepted under fails and
\* releases nothing
NeverAcceptedFails ==
    [][\A id \in TerminateIDs :
          (call'.op = "Terminate" /\ call'.id = id
             /\ \A s \in DOMAIN mgr.servers : mgr.servers[s].id # id)
          => (err' = ErrNoSession /\ mgr' = mgr)]_vars

=============================================================================
